---- MODULE Spec2Model ----
(***************************************************************************)
(* State-machine model of the gesture-to-action core of air-brush-draw:    *)
(*   GestureEngine (src/src/GestureEngine.js)   classifier + arbiter       *)
(*   PhysicsEngine (src/src/PhysicsEngine.js)   inertia / spring integrator*)
(*                                                                         *)
(* Numbers.  JavaScript numbers are modelled in fixed point:               *)
(*   - landmark coordinates and distances in thousandths (Milli = 1.0);    *)
(*   - confidences in units of 1/One, One = 48000, a denominator in which  *)
(*     every confidence formula of the classifier is exact for integer     *)
(*     thousandth inputs (0.65 = 31200, 0.7 = 33600, ...).                 *)
(* The JavaScript values NaN, undefined and +-Infinity are kept as tagged  *)
(* values: a confidence is [k |-> "num", v |-> n], [k |-> "nan"] or        *)
(* [k |-> "undef"], and comparisons follow the JavaScript rules (any       *)
(* comparison with NaN or undefined is false).                             *)
(***************************************************************************)
EXTENDS Integers, Sequences, FiniteSets, TLC

VARIABLES
  \* ---- GestureEngine instance state (constructor, lines 42-55)
  gestureHistory,   \* this.gestureHistory: sequence of result entries
  currentGestures,  \* this.currentGestures: Map in insertion order, <<[name, confidence]>>
  lastLandmarks,    \* this.lastLandmarks: Map key -> landmark copy
  handStates,       \* this.handStates: Map hand index -> state flags
  \* ---- what the caller of the last GestureEngine call observed
  lastCall,         \* "none" | "analyze" | "reset" | "updateLastLandmarks"
  result,           \* analyze's return value, or its exception
  events,           \* callbacks delivered during the last call, in order
  activeBefore,     \* this.currentGestures as it was when the last call began
  openBefore,       \* listener's view: names with an open start before the last call
  openAfter,        \* listener's view: names with an open start after the last call
  watch,            \* a listener counting one name's events over four consecutive frames
  \* ---- PhysicsEngine instance state (constructor, lines 51-58)
  objects,          \* this.objects: Map uuid -> physicsData (with the object's transform)
  deltaTime,        \* this.deltaTime, in milliseconds
  impulses,         \* number of impulses applied so far (bounds the model)
  ticks,            \* number of update calls so far, counted up to MaxTicks
  tickParity,       \* parity of the number of update calls so far
  depthCalls,       \* number of setDepthTarget calls so far (bounds the model)
  drags,            \* number of startDrag calls so far (bounds the model)
  now,              \* performance.now(), in milliseconds
  tweens,           \* the animateTo loops started so far, in order
  detached,         \* transforms of the scene objects that are not in this.objects
  physCall,         \* the last PhysicsEngine call: [op, uuid, raised]
  \* ---- HandDrawingScene refs (lines 29-61)
  cubes,            \* cubesRef.current: the voxels, in creation order
  occupiedGrid,     \* occupiedGridRef.current: Set of grid keys
  historyRef,       \* historyRef.current: [undo, redo], stacks of saved scenes
  lastSaveTime,     \* lastSaveTimeRef.current
  clock,            \* Date.now()
  isPinching,       \* isPinchingRef.current: the pinch sub-state
  wasDrawing,       \* wasDrawingRef.current
  lastDrawPosition, \* lastDrawPositionRef.current: << >> for null, else <<position>>
  currentTool,      \* currentToolRef.current: "draw" | "erase"
  hasEngine,        \* gestureEngineRef.current is not null
  frameLog,         \* what the last scene handler did
  lastPush,         \* Date.now() of the latest push on the undo stack
  cameraZ,          \* cameraRef.current.position.z
  imageScale,       \* imageMeshRef.current.scale.x
  prevTwoHandDist,  \* prevTwoHandDistRef.current: << >> for null, else <<distance>>
  \* ---- HandTracker instance state (constructor, lines 1467-1471)
  tracker,          \* [hands, prevLandmarks, velocities, lastUpdateTime]
  trackerLog        \* the hand counts of the frames passed to update so far

geVars == <<gestureHistory, currentGestures, lastLandmarks, handStates,
            lastCall, result, events, activeBefore, openBefore, openAfter>>

physVars == <<objects, deltaTime, impulses, ticks, tickParity, depthCalls, drags, now, tweens, detached,
             physCall>>

viewVars == <<cameraZ, imageScale, prevTwoHandDist>>

trackVars == <<tracker, trackerLog>>

controlVars == <<cubes, occupiedGrid, historyRef, lastSaveTime, clock, isPinching, wasDrawing,
                lastDrawPosition, currentTool, hasEngine, frameLog, lastPush, viewVars>>

sceneVars == <<controlVars, trackVars>>

vars == <<geVars, watch, physVars, sceneVars>>

-----------------------------------------------------------------------------
(* Fixed-point units *)

Milli == 10 * 100
One == 48 * Milli

Abs(n) == IF n < 0 THEN -n ELSE n
Max(a, b) == IF a > b THEN a ELSE b
Min(a, b) == IF a < b THEN a ELSE b

RECURSIVE SqrtSearch(_, _, _)
SqrtSearch(n, lo, hi) ==
  IF lo >= hi THEN lo
  ELSE LET mid == (lo + hi + 1) \div 2
       IN IF mid * mid <= n THEN SqrtSearch(n, mid, hi) ELSE SqrtSearch(n, lo, mid - 1)

\* Math.sqrt on thousandths: floor of the root (exact on the perfect squares
\* the modelled hands produce).
Sqrt(n) == SqrtSearch(n, 0, 4 * Milli)

\* JavaScript number values that are not finite numbers
Num(n) == [k |-> "num", v |-> n]
NaN == [k |-> "nan", v |-> 0]
Undefined == [k |-> "undef", v |-> 0]
IsNum(c) == c.k = "num"

\* a > b in JavaScript: false when either side is NaN or undefined
JsGt(a, b) == IsNum(a) /\ IsNum(b) /\ a.v > b.v

\* Math.min(1, c): NaN stays NaN
MinOne(c) == IF IsNum(c) THEN Num(Min(One, c.v)) ELSE NaN

-----------------------------------------------------------------------------
(* Configuration (GestureEngine constructor, lines 23-40) *)

pinchThreshold == 60
confidenceThreshold == (65 * One) \div 100
twoHandZoomThreshold == (2 * One) \div 100

-----------------------------------------------------------------------------
(* Frames.  A landmark is [x, y, z] in thousandths; a hand is a function   *)
(* 0..20 -> landmark (0 wrist, 3 thumb IP, 4 thumb tip, 6/10/14/18 PIP     *)
(* joints, 8/12/16/20 finger tips).                                        *)

Pt(x, y, z) == [x |-> x, y |-> y, z |-> z]

\* A concrete hand built from a pose: wx = wrist x, gap = thumb-tip to
\* index-tip distance (along x), idx / thb / fng = how far the index tip /
\* thumb tip / other finger tips lie below (+) or above (-) their PIP / IP
\* joint (y grows downward in image space), thx = thumb tip x minus thumb IP x.
MkHand(p) ==
  LET thumbIP  == Pt(p.wx + 50, 500, 0)
      thumbTip == Pt(p.wx + 50 + p.thx, 500 + p.thb, 0)
      indexTip == Pt(thumbTip.x + p.gap, thumbTip.y, 0)
      indexPIP == Pt(indexTip.x, indexTip.y - p.idx, 0)
      wristPt  == Pt(p.wx, 800, 0)
  IN [i \in 0..20 |->
        CASE i = 3 -> thumbIP
          [] i = 4 -> thumbTip
          [] i = 6 -> indexPIP
          [] i = 8 -> indexTip
          [] i \in {10, 14, 18} -> Pt(p.wx + 10 * i, 500, 0)
          [] i \in {12, 16, 20} -> Pt(p.wx + 10 * (i - 2), 500 + p.fng, 0)
          [] OTHER -> wristPt]

Pose(wx, gap, idx, thb, thx, fng) ==
  [wx |-> wx, gap |-> gap, idx |-> idx, thb |-> thb, thx |-> thx, fng |-> fng]

\* wrist x of the first hand, and of a second hand held apart from it
WristX == 3 * 100
WristFar == 6 * 100

Spread(wx, gap) == MkHand(Pose(wx, gap, 0, 0, 20, 0))        \* nothing detected
Relaxed(wx)    == MkHand(Pose(wx, 200, 0, 0, 20, 0))          \* nothing detected
OpenHand(wx)   == MkHand(Pose(wx, 200, -200, -10, -20, -200)) \* openPalm 1.0
Fist(wx)       == MkHand(Pose(wx, 200, 200, 10, 20, 200))     \* closedFist 1.0, pinch 0.3
PinchHand(wx)  == MkHand(Pose(wx, 0, 10, 10, 20, 0))          \* pinch 1.0
PinchEdge(wx)  == MkHand(Pose(wx, 30, 10, 10, 20, 0))         \* pinch exactly 0.65
PinchFist(wx)  == MkHand(Pose(wx, 0, 200, 10, 20, 200))       \* pinch 1.0 = closedFist 1.0
PinchPalm(wx)  == MkHand(Pose(wx, 0, -140, -10, 20, -140))    \* pinch 0.7 = openPalm 0.7
WeakPinchFist(wx) == MkHand(Pose(wx, 24, 200, 10, 20, 200))   \* pinch 0.72 < closedFist 1.0

OneHandFrames ==
  { <<Relaxed(WristX)>>, <<OpenHand(WristX)>>, <<Fist(WristX)>>, <<PinchHand(WristX)>>,
    <<PinchEdge(WristX)>>, <<PinchFist(WristX)>>, <<PinchPalm(WristX)>>,
    <<WeakPinchFist(WristX)>> }

TwoHandFrames ==
  { <<Relaxed(WristX), Spread(WristFar, 400)>>,  \* index tips 500 apart, wrists 300
    <<Relaxed(WristX), Spread(WristFar, 500)>>,  \* index tips 600 apart, wrists 300
    <<Relaxed(WristX), Relaxed(WristX)>>,         \* wrists coincide, twoHandPinch 1.0
    <<Relaxed(WristX), Relaxed(WristX + 35)>>,    \* twoHandPinch exactly 0.65
    <<PinchHand(WristX), PinchHand(WristX)>> }   \* pinch 1.0 = twoHandPinch 1.0

Frames == {<< >>} \cup OneHandFrames \cup TwoHandFrames

-----------------------------------------------------------------------------
(* Gesture classifier (GestureEngine.js lines 231-569).  Each detector     *)
(* returns the fields of its result object that the engine or its callers  *)
(* read: type, isActive, confidence and the deciding measurements.         *)

Sq(n) == n * n
Dist3(a, b) == Sqrt(Sq(a.x - b.x) + Sq(a.y - b.y) + Sq(a.z - b.z))
Dist2(a, b) == Sqrt(Sq(a.x - b.x) + Sq(a.y - b.y))

\* min(1, v * k) for a length v in thousandths, as a confidence
Scaled(v, k) == Min(One, (v * k * One) \div Milli)

\* mutant: pinch.isActive gated at 0.8 instead of confidenceThreshold
_detectPinch_StricterGate(landmarks) ==
  LET thumbTip == landmarks[4]
      indexTip == landmarks[8]
      indexPIP == landmarks[6]
      thumbIP  == landmarks[3]
      distance == Dist3(thumbTip, indexTip)
      isIndexBent == indexTip.y > indexPIP.y
      isThumbBent == thumbTip.y > thumbIP.y
      pinchFactor == Max(0, One - (distance * One) \div pinchThreshold)
      bendFactor  == IF isIndexBent /\ isThumbBent THEN One ELSE 0
      confidence  == (pinchFactor * 7) \div 10 + (bendFactor * 3) \div 10
  IN [type |-> "pinch",
      isActive |-> confidence > (8 * One) \div 10,
      confidence |-> Num(Min(One, confidence)),
      distance |-> distance,
      isIndexBent |-> isIndexBent,
      isThumbBent |-> isThumbBent]

\* _detectPinch(landmarks): lines 231-276
_detectPinch(landmarks) ==
  LET thumbTip == landmarks[4]
      indexTip == landmarks[8]
      indexPIP == landmarks[6]
      thumbIP  == landmarks[3]
      distance == Dist3(thumbTip, indexTip)
      isIndexBent == indexTip.y > indexPIP.y
      isThumbBent == thumbTip.y > thumbIP.y
      pinchFactor == Max(0, One - (distance * One) \div pinchThreshold)
      bendFactor  == IF isIndexBent /\ isThumbBent THEN One ELSE 0
      confidence  == (pinchFactor * 7) \div 10 + (bendFactor * 3) \div 10
  IN [type |-> "pinch",
      isActive |-> confidence > confidenceThreshold,
      confidence |-> Num(Min(One, confidence)),
      distance |-> distance,
      isIndexBent |-> isIndexBent,
      isThumbBent |-> isThumbBent]

fingerTips == <<8, 12, 16, 20>>
fingerPIPs == <<6, 10, 14, 18>>

_detectOpenPalm(landmarks) ==
  LET ext(i) == Max(0, landmarks[fingerPIPs[i]].y - landmarks[fingerTips[i]].y)
      extensionScore == Scaled(ext(1), 5) + Scaled(ext(2), 5) + Scaled(ext(3), 5) + Scaled(ext(4), 5)
      fingers == Cardinality({i \in 1..4 : landmarks[fingerTips[i]].y < landmarks[fingerPIPs[i]].y})
      thumbExtended == landmarks[4].x < landmarks[3].x
      extendedFingers == fingers + (IF thumbExtended THEN 1 ELSE 0)
      isActive == extendedFingers >= 3
      confidence == (extensionScore * extendedFingers) \div 16
  IN [type |-> "openPalm",
      isActive |-> isActive,
      confidence |-> Num(Min(One, confidence)),
      extendedFingers |-> extendedFingers,
      isReset |-> isActive /\ confidence > (7 * One) \div 10]

_detectClosedFist(landmarks) ==
  LET curl(i) == Max(0, landmarks[fingerTips[i]].y - landmarks[fingerPIPs[i]].y)
      curlScore == Scaled(curl(1), 5) + Scaled(curl(2), 5) + Scaled(curl(3), 5) + Scaled(curl(4), 5)
      curledFingers == Cardinality({i \in 1..4 : landmarks[fingerTips[i]].y > landmarks[fingerPIPs[i]].y})
      isActive == curledFingers >= 3
      confidence == (curlScore * curledFingers) \div 16
  IN [type |-> "closedFist",
      isActive |-> isActive,
      confidence |-> Num(Min(One, confidence)),
      curledFingers |-> curledFingers,
      isLocked |-> isActive /\ confidence > (7 * One) \div 10]

\* keys of this.lastLandmarks
WristKey(handIndex) == IF handIndex = 0 THEN "hand_0_wrist" ELSE "hand_1_wrist"
IndexKey(handIndex) == IF handIndex = 0 THEN "hand_0_index" ELSE "hand_1_index"
EmptyMap == [k \in {} |-> 0]

\* !prevWrist || !prevIndex  (lines 363, 428)
NoPrev(last, handIndex) ==
  WristKey(handIndex) \notin DOMAIN last \/ IndexKey(handIndex) \notin DOMAIN last

\* The result of a detector that raised instead of returning.
ReferenceError == [type |-> "ReferenceError", isActive |-> FALSE, confidence |-> Undefined]

\* _detectRotation declares indexTip but no `wrist` (line 357): once both
\* previous snapshots exist, line 369 reads the undeclared identifier `wrist`
\* and raises ReferenceError, so lines 374-414 never run.
_detectRotation(landmarks, handIndex, last) ==
  IF NoPrev(last, handIndex)
  THEN [type |-> "rotation", isActive |-> FALSE, confidence |-> Num(0)]
  ELSE ReferenceError

_detectDrag(landmarks, handIndex, last) ==
  IF NoPrev(last, handIndex)
  THEN [type |-> "drag", isActive |-> FALSE, confidence |-> Undefined]  \* no confidence field
  ELSE LET movement == Dist3(landmarks[8], last[IndexKey(handIndex)])
       IN [type |-> "drag",
           isActive |-> movement > 5,
           confidence |-> Num(Scaled(movement, 50))]

\* this.gestureHistory[length - 1].twoHandDistance, or currentDistance when
\* the history is empty (lines 473-474)
PrevDistance(history, currentDistance) ==
  IF Len(history) > 0 THEN history[Len(history)].twoHandDistance ELSE Num(currentDistance)

_detectTwoHandZoom(landmarks1, landmarks2, history) ==
  LET currentDistance == Dist3(landmarks1[8], landmarks2[8])
      palmDistance == Dist2(landmarks1[0], landmarks2[0])
      prevDistance == PrevDistance(history, currentDistance)
      \* currentDistance - undefined is NaN
      changeIsNaN == ~IsNum(prevDistance)
      distanceChange == IF changeIsNaN THEN 0 ELSE currentDistance - prevDistance.v
      \* x / 0 is NaN for x = 0 and +-Infinity otherwise
      normIsNaN == changeIsNaN \/ (palmDistance = 0 /\ distanceChange = 0)
      normIsInf == ~normIsNaN /\ palmDistance = 0
      direction == IF ~normIsNaN /\ distanceChange > 0 THEN 1 ELSE -1
      isZooming == /\ ~normIsNaN
                   /\ \/ normIsInf
                      \/ Abs(distanceChange) * 100 > 2 * palmDistance
      confidence == IF normIsNaN THEN NaN
                    ELSE IF normIsInf THEN Num(One)
                    ELSE Num(Min(One, (Abs(distanceChange) * 10 * One) \div palmDistance))
  IN [type |-> "twoHandZoom",
      isActive |-> isZooming,
      confidence |-> confidence,
      direction |-> direction,
      currentDistance |-> currentDistance]

\* lines 485-487: every entry already in the history gets the current distance
StoreDistance(history, currentDistance) ==
  [i \in 1..Len(history) |-> [history[i] EXCEPT !.twoHandDistance = Num(currentDistance)]]

_detectTwoHandRotation(landmarks1, landmarks2, last) ==
  IF "twoHand_wrist1" \notin DOMAIN last \/ "twoHand_wrist2" \notin DOMAIN last
  THEN [type |-> "twoHandRotation", isActive |-> FALSE, confidence |-> Num(0)]
  ELSE LET delta1 == landmarks1[0].x - last["twoHand_wrist1"].x
           delta2 == landmarks2[0].x - last["twoHand_wrist2"].x
           isRotating == Abs(delta1) > 5 /\ Abs(delta2) > 5
       IN [type |-> "twoHandRotation",
           isActive |-> isRotating,
           confidence |-> IF isRotating THEN Num(Scaled(Abs(delta1) + Abs(delta2), 20))
                          ELSE Num(0)]

_detectTwoHandPinch(landmarks1, landmarks2) ==
  LET thumbDistance == Dist2(landmarks1[4], landmarks2[4])
      indexDistance == Dist2(landmarks1[8], landmarks2[8])
      isGrabbing == thumbDistance < 100 /\ indexDistance < 150
  IN [type |-> "twoHandPinch",
      isActive |-> isGrabbing,
      confidence |-> IF isGrabbing THEN Num(Max(0, One - (thumbDistance * 10 * One) \div Milli))
                     ELSE Num(0),
      thumbDistance |-> thumbDistance]

-----------------------------------------------------------------------------
(* Gesture arbiter: analyze (lines 63-150) and its helpers *)

\* insertion order of results.gestures, which Object.entries walks (line 95):
\* _analyzeSingleHand assigns pinch, openPalm, closedFist, rotation, drag
\* (lines 173-195), then Object.assign adds the two-hand results (lines 214-222)
SingleNames == <<"pinch", "openPalm", "closedFist", "rotation", "drag">>
TwoNames == <<"twoHandZoom", "twoHandRotation", "twoHandPinch">>
EntryOrder(handCount) == IF handCount = 2 THEN SingleNames \o TwoNames ELSE SingleNames

Range(seq) == {seq[i] : i \in DOMAIN seq}

_analyzeSingleHand(landmarks, handIndex, last) ==
  LET pinch == _detectPinch(landmarks)
      openPalm == _detectOpenPalm(landmarks)
      closedFist == _detectClosedFist(landmarks)
      rotation == _detectRotation(landmarks, handIndex, last)
      drag == _detectDrag(landmarks, handIndex, last)
  IN [threw |-> rotation.type = "ReferenceError",
      gestures |-> [pinch |-> pinch, openPalm |-> openPalm, closedFist |-> closedFist,
                    rotation |-> rotation, drag |-> drag],
      state |-> [isPinching |-> pinch.isActive, isOpenPalm |-> openPalm.isActive,
                 isClosedFist |-> closedFist.isActive, isDragging |-> drag.isActive,
                 isRotating |-> rotation.isActive]]

_analyzeTwoHands(landmarks1, landmarks2, history, last) ==
  [twoHandZoom |-> _detectTwoHandZoom(landmarks1, landmarks2, history),
   twoHandRotation |-> _detectTwoHandRotation(landmarks1, landmarks2, last),
   twoHandPinch |-> _detectTwoHandPinch(landmarks1, landmarks2)]

\* mutant: the threshold test written >= instead of >
Candidates_Inclusive(gestures, order) ==
  SelectSeq(order, LAMBDA n : /\ IsNum(gestures[n].confidence)
                              /\ gestures[n].confidence.v >= confidenceThreshold)

\* lines 94-99: the names whose confidence exceeds the threshold, in entry order
Candidates(gestures, order) ==
  SelectSeq(order, LAMBDA n : JsGt(gestures[n].confidence, Num(confidenceThreshold)))

\* mutant: the candidate list left in entry order (the sort dropped)
InsertByConfidence_Unsorted(sorted, n, gestures) == Append(sorted, n)

\* mutant: an unstable sort that puts a later entry before its equals
InsertByConfidence_BeforeEquals(sorted, n, gestures) ==
  LET pos == Cardinality({i \in DOMAIN sorted :
                            gestures[sorted[i]].confidence.v > gestures[n].confidence.v})
  IN SubSeq(sorted, 1, pos) \o <<n>> \o SubSeq(sorted, pos + 1, Len(sorted))

\* one step of a stable descending sort: n goes behind every element whose
\* confidence is not lower than its own
InsertByConfidence(sorted, n, gestures) ==
  LET pos == Cardinality({i \in DOMAIN sorted :
                            gestures[sorted[i]].confidence.v >= gestures[n].confidence.v})
  IN SubSeq(sorted, 1, pos) \o <<n>> \o SubSeq(sorted, pos + 1, Len(sorted))

RECURSIVE SortByConfidence(_, _)
\* gestureList.sort((a, b) => b.confidence - a.confidence), line 102
\* (Array.prototype.sort is stable)
SortByConfidence(names, gestures) ==
  IF names = << >> THEN << >>
  ELSE InsertByConfidence(SortByConfidence(SubSeq(names, 1, Len(names) - 1), gestures),
                          names[Len(names)], gestures)

Event(kind, name, confidence) == [kind |-> kind, name |-> name, confidence |-> confidence]

CurrentNames(current) == {current[i].name : i \in DOMAIN current}

\* mutant: the prevGesture test lost, every primary frame delivers a start
StartOrUpdate_AlwaysStarts(current, gestureList, gestures) ==
  IF gestureList = << >> THEN [current |-> current, events |-> << >>]
  ELSE LET primary == gestureList[1]
           confidence == gestures[primary].confidence.v
           entry == [name |-> primary, confidence |-> confidence]
       IN [current |-> Append(SelectSeq(current, LAMBDA e : e.name # primary), entry),
           events |-> <<Event("start", primary, confidence)>>]

\* lines 104-129: start or update the primary gesture
StartOrUpdate(current, gestureList, gestures) ==
  IF gestureList = << >> THEN [current |-> current, events |-> << >>]
  ELSE LET primary == gestureList[1]
           confidence == gestures[primary].confidence.v
       IN IF primary \notin CurrentNames(current)
          THEN [current |-> Append(current, [name |-> primary, confidence |-> confidence]),
                events |-> <<Event("start", primary, confidence)>>]
          ELSE [current |-> [i \in DOMAIN current |->
                               IF current[i].name = primary
                               THEN [current[i] EXCEPT !.confidence = confidence]
                               ELSE current[i]],
                events |-> <<Event("update", primary, confidence)>>]

\* mutant: the end callback fires but the entry is not deleted
_cleanupGestures_KeepsEnded(current, activeGestures) ==
  LET ended == SelectSeq(current, LAMBDA e : e.name \notin Range(activeGestures))
  IN [current |-> current,
      events |-> [i \in DOMAIN ended |-> Event("end", ended[i].name, ended[i].confidence)]]

\* lines 594-603: end and delete every tracked gesture that is not a candidate
_cleanupGestures(current, activeGestures) ==
  LET ended == SelectSeq(current, LAMBDA e : e.name \notin Range(activeGestures))
  IN [current |-> SelectSeq(current, LAMBDA e : e.name \in Range(activeGestures)),
      events |-> [i \in DOMAIN ended |-> Event("end", ended[i].name, ended[i].confidence)]]

\* lines 609-618: the end events of _clearAllGestures (the maps are cleared by the caller)
_clearAllGestures(current) ==
  [i \in DOMAIN current |-> Event("end", current[i].name, current[i].confidence)]

HistoryMax == 20
\* bound of the model: frames analysed between two reset() calls
MaxFrames == 4

\* lines 135-138: push the result, drop the oldest beyond HistoryMax entries
PushHistory(history) ==
  LET pushed == Append(history, [twoHandDistance |-> Undefined])
  IN IF Len(pushed) > HistoryMax THEN Tail(pushed) ELSE pushed

NoResult == [kind |-> "none", handCount |-> 0, gestures |-> EmptyMap,
             primaryGesture |-> "null", primaryConfidence |-> 0]
\* analyze raised: no result object reaches the caller
Thrown(handCount) == [NoResult EXCEPT !.kind = "throw", !.handCount = handCount]
Returned(handCount, gestures, primaryGesture, primaryConfidence) ==
  [kind |-> "ok", handCount |-> handCount, gestures |-> gestures,
   primaryGesture |-> primaryGesture, primaryConfidence |-> primaryConfidence]

\* the listener's bookkeeping of open activations, from the events alone
RECURSIVE OpenAfterEvents(_, _)
OpenAfterEvents(open, evs) ==
  IF evs = << >> THEN open
  ELSE OpenAfterEvents(
         CASE Head(evs).kind = "start" -> open \cup {Head(evs).name}
           [] Head(evs).kind = "end" -> open \ {Head(evs).name}
           [] OTHER -> open,
         Tail(evs))

Observe(call, res, evs) ==
  /\ lastCall' = call
  /\ result' = res
  /\ events' = evs
  /\ activeBefore' = currentGestures
  /\ openBefore' = openAfter
  /\ openAfter' = OpenAfterEvents(openAfter, evs)

\* mutant: the empty frame ends the gestures but keeps the landmark snapshots
AnalyzeEmpty_KeepsSnapshots ==
  /\ currentGestures' = << >>
  /\ handStates' = EmptyMap
  /\ UNCHANGED <<lastLandmarks, gestureHistory>>
  /\ Observe("analyze", Returned(0, EmptyMap, "null", 0),
             _clearAllGestures(currentGestures))

\* analyze([]) : lines 73-76
AnalyzeEmpty ==
  /\ currentGestures' = << >>
  /\ handStates' = EmptyMap
  /\ lastLandmarks' = EmptyMap
  /\ UNCHANGED gestureHistory
  /\ Observe("analyze", Returned(0, EmptyMap, "null", 0),
             _clearAllGestures(currentGestures))

\* analyze(frame) that raises inside _analyzeSingleHand (line 80), before any
\* field of the engine has been written
AnalyzeThrows(frame) ==
  /\ _analyzeSingleHand(frame[1], 0, lastLandmarks).threw
  /\ UNCHANGED <<gestureHistory, currentGestures, lastLandmarks, handStates>>
  /\ Observe("analyze", Thrown(Len(frame)), << >>)

\* analyze(frame) that returns: lines 78-149
AnalyzeReturns(frame) ==
  LET single == _analyzeSingleHand(frame[1], 0, lastLandmarks)
      two == Len(frame) = 2
      gestures == IF two
                  THEN single.gestures @@
                       _analyzeTwoHands(frame[1], frame[2], gestureHistory, lastLandmarks)
                  ELSE single.gestures
      history == IF two
                 THEN StoreDistance(gestureHistory, gestures["twoHandZoom"].currentDistance)
                 ELSE gestureHistory
      gestureList == SortByConfidence(Candidates(gestures, EntryOrder(Len(frame))), gestures)
      started == StartOrUpdate(currentGestures, gestureList, gestures)
      cleaned == _cleanupGestures(started.current, gestureList)
      primary == IF gestureList = << >> THEN "null" ELSE gestureList[1]
      primaryConfidence == IF gestureList = << >> THEN 0 ELSE gestures[primary].confidence.v
  IN /\ ~single.threw
     /\ Len(gestureHistory) < MaxFrames
     /\ handStates' = [h \in {0} |-> single.state]
     /\ currentGestures' = cleaned.current
     /\ gestureHistory' = PushHistory(history)
     /\ UNCHANGED lastLandmarks
     /\ Observe("analyze", Returned(Len(frame), gestures, primary, primaryConfidence),
                started.events \o cleaned.events)

Analyze(frame) ==
  IF frame = << >> THEN AnalyzeEmpty
  ELSE AnalyzeThrows(frame) \/ AnalyzeReturns(frame)

\* hand arrays whose length is not 21: one landmark too many, and cut after
\* the thumb tip
LongHand(hand) == [i \in 0..21 |-> IF i \in DOMAIN hand THEN hand[i] ELSE hand[0]]
ShortHand(hand) == [i \in 0..4 |-> hand[i]]

MalformedFrames ==
  { <<LongHand(Relaxed(WristX))>>, <<LongHand(PinchHand(WristX))>>,
    <<ShortHand(Relaxed(WristX))>>,
    <<Relaxed(WristX), ShortHand(Relaxed(WristFar))>>,
    <<Relaxed(WristX), LongHand(Relaxed(WristX))>> }

\* the landmarks the single-hand detectors dereference (lines 232-235, 274-275,
\* 306-307) and those the two-hand detectors dereference (lines 459-462)
SingleHandReads == {3, 4, 6, 8, 10, 12, 14, 16, 18, 20}
TwoHandReads == {0, 8}

\* analyze(frame) whose first hand lacks a landmark _detectPinch reads: the
\* property access on undefined raises a TypeError at line 80, before any
\* field of the engine has been written
AnalyzeTypeError(frame) ==
  /\ ~(SingleHandReads \subseteq DOMAIN frame[1])
  /\ UNCHANGED <<gestureHistory, currentGestures, lastLandmarks, handStates>>
  /\ Observe("analyze", Thrown(Len(frame)), << >>)

\* analyze(frame) whose second hand lacks a landmark _detectTwoHandZoom
\* reads: the TypeError is raised at line 89, after line 84 stored the state
\* of the first hand
AnalyzeSecondTypeError(frame) ==
  LET single == _analyzeSingleHand(frame[1], 0, lastLandmarks)
  IN /\ SingleHandReads \subseteq DOMAIN frame[1]
     /\ Len(frame) = 2
     /\ ~(TwoHandReads \subseteq DOMAIN frame[2])
     /\ ~single.threw
     /\ handStates' = [h \in {0} |-> single.state]
     /\ UNCHANGED <<gestureHistory, currentGestures, lastLandmarks>>
     /\ Observe("analyze", Thrown(Len(frame)), << >>)

\* analyze(frame) for a frame of any hand arrays: lines 63-149 hold no test
\* of hands[i].length
AnalyzeFrame(frame) ==
  IF frame = << >> THEN AnalyzeEmpty
  ELSE IF ~(SingleHandReads \subseteq DOMAIN frame[1]) THEN AnalyzeTypeError(frame)
  ELSE IF Len(frame) = 2 /\ ~(TwoHandReads \subseteq DOMAIN frame[2])
       THEN AnalyzeThrows(frame) \/ AnalyzeSecondTypeError(frame)
  ELSE Analyze(frame)

\* one step of the stable descending sort of getPrimaryGesture, line 638
InsertEntry(sorted, entry) ==
  LET pos == Cardinality({i \in DOMAIN sorted : sorted[i].confidence >= entry.confidence})
  IN SubSeq(sorted, 1, pos) \o <<entry>> \o SubSeq(sorted, pos + 1, Len(sorted))

RECURSIVE SortEntries(_)
SortEntries(entries) ==
  IF entries = << >> THEN << >>
  ELSE InsertEntry(SortEntries(SubSeq(entries, 1, Len(entries) - 1)), entries[Len(entries)])

\* getPrimaryGesture(): lines 635-641; "null" for null
getPrimaryGesture(current) ==
  LET active == SortEntries(current)
  IN IF active = << >> THEN "null" ELSE active[1].name

\* isGestureActive(gestureName): lines 648-650
isGestureActive(current, gestureName) == gestureName \in CurrentNames(current)

\* getGestureConfidence(gestureName): lines 657-660
getGestureConfidence(current, gestureName) ==
  IF gestureName \in CurrentNames(current)
  THEN (CHOOSE e \in Range(current) : e.name = gestureName).confidence
  ELSE 0

\* reset(): lines 669-672
Reset ==
  /\ currentGestures' = << >>
  /\ handStates' = EmptyMap
  /\ lastLandmarks' = EmptyMap
  /\ gestureHistory' = << >>
  /\ Observe("reset", NoResult, _clearAllGestures(currentGestures))

\* updateLastLandmarks(hands): lines 623-633
SnapshotOf(hands) ==
  LET perHand == [k \in UNION {{WristKey(i - 1), IndexKey(i - 1)} : i \in DOMAIN hands} |->
                    CASE k = "hand_0_wrist" -> hands[1][0]
                      [] k = "hand_0_index" -> hands[1][8]
                      [] k = "hand_1_wrist" -> hands[2][0]
                      [] k = "hand_1_index" -> hands[2][8]]
  IN IF Len(hands) = 2
     THEN perHand @@ [k \in {"twoHand_wrist1", "twoHand_wrist2"} |->
                        IF k = "twoHand_wrist1" THEN hands[1][0] ELSE hands[2][0]]
     ELSE perHand

UpdateLastLandmarks(hands) ==
  /\ lastLandmarks' = SnapshotOf(hands) @@ lastLandmarks
  /\ UNCHANGED <<gestureHistory, currentGestures, handStates>>
  /\ Observe("updateLastLandmarks", NoResult, << >>)

\* the frames whose landmarks callers snapshot in the model
SnapshotFrames ==
  { <<Relaxed(WristX)>>, <<PinchHand(WristX)>>, <<Relaxed(WristX), Spread(WristFar, 400)>> }

InitGesture ==
  /\ gestureHistory = << >>
  /\ currentGestures = << >>
  /\ lastLandmarks = EmptyMap
  /\ handStates = EmptyMap
  /\ lastCall = "none"
  /\ result = NoResult
  /\ events = << >>
  /\ activeBefore = << >>
  /\ openBefore = {}
  /\ openAfter = {}

-----------------------------------------------------------------------------
(* A listener that follows one gesture name over a window of four          *)
(* consecutive analyze calls on non-empty frames: the name is not active   *)
(* before the first, exceeds the threshold in the first three and is below *)
(* it in the fourth.  It counts the callbacks delivered for that name.     *)

Idle == [name |-> "none", phase |-> 0, starts |-> 0, updates |-> 0, ends |-> 0, top |-> FALSE]

CountEvents(evs, kind, name) ==
  Cardinality({i \in DOMAIN evs : evs[i].kind = kind /\ evs[i].name = name})

Exceeds(res, name) ==
  name \in DOMAIN res.gestures /\ JsGt(res.gestures[name].confidence, Num(confidenceThreshold))

Below(res, name) ==
  name \in DOMAIN res.gestures /\ JsGt(Num(confidenceThreshold), res.gestures[name].confidence)

Counted(w, res, evs) ==
  [w EXCEPT !.starts = @ + CountEvents(evs, "start", w.name),
            !.updates = @ + CountEvents(evs, "update", w.name),
            !.ends = @ + CountEvents(evs, "end", w.name),
            !.top = @ \/ res.primaryGesture = w.name]

\* the listener's step on an analyze call, given the engine's response
WatchAnalyze ==
  IF ~(result'.kind = "ok" /\ result'.handCount > 0) THEN watch' = Idle
  ELSE CASE watch.phase \in {0, 4} ->
              \/ watch' = Idle
              \/ \E name \in Range(SingleNames \o TwoNames) :
                   /\ name \notin CurrentNames(currentGestures)
                   /\ Exceeds(result', name)
                   /\ watch' = Counted([Idle EXCEPT !.name = name, !.phase = 1], result', events')
         [] watch.phase \in {1, 2} ->
              IF Exceeds(result', watch.name)
              THEN watch' = Counted([watch EXCEPT !.phase = @ + 1], result', events')
              ELSE watch' = Idle
         [] OTHER ->
              IF Below(result', watch.name)
              THEN watch' = Counted([watch EXCEPT !.phase = 4], result', events')
              ELSE watch' = Idle

-----------------------------------------------------------------------------
(* Physics integrator (PhysicsEngine.js).  Lengths, velocities and angles   *)
(* are integers in millionths (Unit = 1.0); time steps are in milliseconds. *)
(* A product a * n / d is truncated toward zero.                            *)

Unit == Milli * Milli

Sign(a) == IF a < 0 THEN -1 ELSE 1
MulDiv(a, n, d) == Sign(a) * ((Abs(a) * n) \div d)

Vec(x, y, z) == [x |-> x, y |-> y, z |-> z]
Zero3 == Vec(0, 0, 0)
VecAdd(a, b) == Vec(a.x + b.x, a.y + b.y, a.z + b.z)
VecScale(a, n, d) == Vec(MulDiv(a.x, n, d), MulDiv(a.y, n, d), MulDiv(a.z, n, d))

\* Vector3.length(): the components are scaled down before squaring so that
\* the squares stay within the integer range
LengthScale(a) ==
  LET m == Max(Abs(a.x), Max(Abs(a.y), Abs(a.z)))
  IN IF m <= 20 * Milli THEN 1 ELSE IF m <= 2 * Unit THEN 100 ELSE Milli
VecLength(a) ==
  LET k == LengthScale(a)
  IN k * SqrtSearch(Sq(a.x \div k) + Sq(a.y \div k) + Sq(a.z \div k), 0, 40 * Milli)

\* Vector3.clampLength(0, max), to the thousandth when the vector is shortened
ClampLength(a, max) ==
  LET length == VecLength(a)
  IN IF length <= max THEN a
     ELSE Vec(Milli * MulDiv(a.x \div Milli, max \div Milli, length \div Milli),
              Milli * MulDiv(a.y \div Milli, max \div Milli, length \div Milli),
              Milli * MulDiv(a.z \div Milli, max \div Milli, length \div Milli))

Clamp(v, lo, hi) == Max(lo, Min(hi, v))

\* configuration: constructor lines 21-48 with the options of
\* HandDrawingScene.js lines 92-100
positionDamping == 85          \* percent
rotationDamping == 90          \* percent
springStiffness == 15          \* percent
springDamping == 80            \* percent
enableSnap == TRUE
snapGridSize == Unit \div 10
maxVelocity == 5 * Unit
maxRotationSpeed == 3141593    \* Math.PI
RestSpeed == Unit \div (10 * Milli)      \* 0.0001, lines 300 and 314-316
SpringRest == Unit \div Milli            \* 0.001, line 329
FrameMs == 16                  \* deltaTime of the render loop

\* registerObject(object, options): lines 107-129
registerObject(position, rotation, scale, mass) ==
  [position |-> position, rotation |-> rotation, scale |-> scale,
   velocity |-> Zero3, rotationVelocity |-> Zero3,
   mass |-> mass,
   isDragging |-> FALSE, isLocked |-> FALSE,
   nan |-> FALSE,    \* position, rotation and scale have become NaN
   spring |-> [currentZ |-> 0, velocityZ |-> 0, targetZ |-> 0],
   originalPosition |-> position, originalRotation |-> rotation, originalScale |-> scale]

\* mutant: the isLocked test of applyImpulse lost
applyImpulse_IgnoresLock(data, force) ==
  [data EXCEPT !.velocity =
     ClampLength(VecAdd(@, VecScale(force, 10, data.mass)), maxVelocity)]

\* applyImpulse(object, force) on a registered object: lines 145-155
\* (mass is kept in tenths)
applyImpulse(data, force) ==
  IF data.isLocked THEN data
  ELSE [data EXCEPT !.velocity =
          ClampLength(VecAdd(@, VecScale(force, 10, data.mass)), maxVelocity)]

\* applyRotationImpulse(object, torque): lines 162-183
applyRotationImpulse(data, torque) ==
  IF data.isLocked THEN data
  ELSE [data EXCEPT !.rotationVelocity =
          Vec(Clamp(@.x + torque.x, -maxRotationSpeed, maxRotationSpeed),
              Clamp(@.y + torque.y, -maxRotationSpeed, maxRotationSpeed),
              Clamp(@.z + torque.z, -maxRotationSpeed, maxRotationSpeed))]

\* setLocked(object, locked): lines 254-263
setLocked(data, locked) ==
  IF locked
  THEN [data EXCEPT !.isLocked = TRUE, !.velocity = Zero3, !.rotationVelocity = Zero3]
  ELSE [data EXCEPT !.isLocked = FALSE]

\* _snapToGrid(value): lines 269-273; Math.round rounds halves upward
_snapToGrid(value) ==
  IF ~enableSnap THEN value
  ELSE ((2 * value + snapGridSize) \div (2 * snapGridSize)) * snapGridSize

StopIfSlow(v) == IF Abs(v) < RestSpeed THEN 0 ELSE v

\* mutant: the velocity zeroed below 0.001 instead of 0.0001
Inertia_StopsBelowMilli(data, dt) ==
  IF data.isDragging THEN data
  ELSE LET damped == VecScale(data.velocity, positionDamping, 100)
       IN [data EXCEPT
             !.position = VecAdd(@, VecScale(data.velocity, dt, Milli)),
             !.velocity = IF VecLength(damped) < 10 * RestSpeed THEN Zero3 ELSE damped]

\* mutant: the inertia block skipped, as for a dragged body
Inertia_AsIfDragged(data, dt) == data

\* lines 294-303: inertia of a body that is not dragged
Inertia(data, dt) ==
  IF data.isDragging THEN data
  ELSE LET damped == VecScale(data.velocity, positionDamping, 100)
       IN [data EXCEPT
             !.position = VecAdd(@, VecScale(data.velocity, dt, Milli)),
             !.velocity = IF VecLength(damped) < RestSpeed THEN Zero3 ELSE damped]

\* lines 305-316: rotation inertia
RotationInertia(data, dt) ==
  [data EXCEPT
     !.rotation = VecAdd(@, VecScale(data.rotationVelocity, dt, Milli)),
     !.rotationVelocity = Vec(StopIfSlow(MulDiv(@.x, rotationDamping, 100)),
                              StopIfSlow(MulDiv(@.y, rotationDamping, 100)),
                              StopIfSlow(MulDiv(@.z, rotationDamping, 100)))]

\* lines 318-333: the depth spring
DepthSpring(data, dt) ==
  IF data.position.z = data.spring.targetZ THEN data
  ELSE LET displacement == data.position.z - data.spring.targetZ
           springForce == -MulDiv(displacement, springStiffness, 100)
           dampingForce == -MulDiv(data.spring.velocityZ, springDamping, 100)
           acceleration == springForce + dampingForce
           velocityZ == data.spring.velocityZ + MulDiv(acceleration, dt, Milli)
           z == data.position.z + MulDiv(velocityZ, dt, Milli)
           atRest == Abs(displacement) < SpringRest /\ Abs(velocityZ) < SpringRest
       IN [data EXCEPT
             !.position.z = IF atRest THEN data.spring.targetZ ELSE z,
             !.spring.velocityZ = IF atRest THEN 0 ELSE velocityZ]

\* lines 335-339: magnetic snap of x and y
MagneticSnap(data) ==
  IF enableSnap /\ ~data.isDragging
  THEN [data EXCEPT !.position.x = _snapToGrid(@), !.position.y = _snapToGrid(@)]
  ELSE data

\* the body of update's loop for one object: lines 289-340
UpdateBody(data, dt) ==
  IF data.isLocked THEN data
  ELSE LET next == MagneticSnap(DepthSpring(RotationInertia(Inertia(data, dt), dt), dt))
       IN IF data.nan
          THEN \* NaN plus anything is NaN: only the velocities still change
               [data EXCEPT !.velocity = next.velocity,
                            !.rotationVelocity = next.rotationVelocity]
          ELSE next

\* the scene's objects: one that gets registered, one that never is
Uuids == {"object"}
Strangers == {"stranger"}
SceneObjects == Uuids \cup Strangers

\* position, rotation and scale of a THREE.Object3D
TransformOf(data) ==
  [position |-> data.position, rotation |-> data.rotation, scale |-> data.scale,
   nan |-> data.nan]
WithTransform(data, tr) ==
  [data EXCEPT !.position = tr.position, !.rotation = tr.rotation, !.scale = tr.scale,
               !.nan = tr.nan]
\* a new object before the scene places it
NewObject == [position |-> Zero3, rotation |-> Zero3, scale |-> Vec(Unit, Unit, Unit),
              nan |-> FALSE, placed |-> FALSE]
Called(op, uuid) == [op |-> op, uuid |-> uuid, raised |-> FALSE]

\* bounds of the model: impulses applied and update calls made in one run
MaxImpulses == 1
MaxTicks == 6

Registered(uuid) == uuid \in DOMAIN objects

\* registerObject on an object that is not in the map yet; a new object is
\* first placed at position by the scene, an object that was registered
\* before keeps the transform it has
RegisterObject(uuid, position) ==
  /\ ~Registered(uuid)
  /\ objects' = [u \in DOMAIN objects \cup {uuid} |->
                   IF u # uuid THEN objects[u]
                   ELSE IF detached[uuid].placed
                   THEN [registerObject(detached[uuid].position, detached[uuid].rotation,
                                        detached[uuid].scale, 10)
                           EXCEPT !.nan = detached[uuid].nan]
                   ELSE registerObject(position, Zero3, Vec(Unit, Unit, Unit), 10)]
  /\ detached' = [u \in DOMAIN detached \ {uuid} |-> detached[u]]
  /\ physCall' = Called("registerObject", uuid)
  /\ UNCHANGED <<drags, deltaTime, impulses, ticks, tickParity, depthCalls, now, tweens>>

\* unregisterObject(object): lines 135-137
UnregisterObject(uuid) ==
  /\ objects' = [u \in DOMAIN objects \ {uuid} |-> objects[u]]
  /\ detached' = IF Registered(uuid)
                 THEN [u \in DOMAIN detached \cup {uuid} |->
                         IF u = uuid
                         THEN [position |-> objects[uuid].position,
                               rotation |-> objects[uuid].rotation,
                               scale |-> objects[uuid].scale,
                               nan |-> objects[uuid].nan, placed |-> TRUE]
                         ELSE detached[u]]
                 ELSE detached
  /\ physCall' = Called("unregisterObject", uuid)
  /\ UNCHANGED <<drags, deltaTime, impulses, ticks, tickParity, depthCalls, now, tweens>>

Forces == {Vec(8 * Unit, 6 * Unit, 0), Vec(0, 0, -2 * Unit)}
Torques == {Vec(Unit \div 2, 0, 0), Vec(0, -4 * Unit, 0)}

ApplyImpulse(uuid, force) ==
  /\ impulses < MaxImpulses
  /\ impulses' = impulses + 1
  /\ objects' = IF Registered(uuid)
                THEN [objects EXCEPT ![uuid] = applyImpulse(@, force)]
                ELSE objects
  /\ physCall' = Called("applyImpulse", uuid)
  /\ UNCHANGED <<drags, deltaTime, ticks, tickParity, depthCalls, now, tweens, detached>>

ApplyRotationImpulse(uuid, torque) ==
  /\ impulses < MaxImpulses
  /\ impulses' = impulses + 1
  /\ objects' = IF Registered(uuid)
                THEN [objects EXCEPT ![uuid] = applyRotationImpulse(@, torque)]
                ELSE objects
  /\ physCall' = Called("applyRotationImpulse", uuid)
  /\ UNCHANGED <<drags, deltaTime, ticks, tickParity, depthCalls, now, tweens, detached>>

SetLocked(uuid, locked) ==
  /\ objects' = IF Registered(uuid)
                THEN [objects EXCEPT ![uuid] = setLocked(@, locked)]
                ELSE objects
  /\ physCall' = Called("setLocked", uuid)
  /\ UNCHANGED <<drags, deltaTime, impulses, ticks, tickParity, depthCalls, now, tweens, detached>>

\* update(deltaTime): lines 279-347
UpdateAll(dt) ==
  /\ deltaTime' = Min(dt, 100)
  /\ objects' = [uuid \in DOMAIN objects |-> UpdateBody(objects[uuid], Min(dt, 100))]
  /\ physCall' = Called("update", "all")
  /\ tickParity' = 1 - tickParity
  /\ UNCHANGED <<drags, impulses, depthCalls, now, tweens, detached>>

\* update, at most MaxTicks times
Update(dt) ==
  /\ ticks < MaxTicks
  /\ ticks' = ticks + 1
  /\ UpdateAll(dt)

\* bound of the model: update calls of a body left to coast
MaxCoast == 70

\* update called by the render loop, counted up to MaxCoast
Coast ==
  /\ ticks < MaxCoast
  /\ ticks' = ticks + 1
  /\ UpdateAll(FrameMs)

\* update called by the render loop for as long as the page lives
\* (HandDrawingScene.js lines 922-930); ticks counts the first MaxTicks calls
Tick ==
  /\ ticks' = Min(ticks + 1, MaxTicks)
  /\ UpdateAll(FrameMs)

\* setDepthTarget(object, z): lines 241-247
setDepthTarget(data, z) ==
  [data EXCEPT !.spring.targetZ = z, !.spring.currentZ = data.position.z]

\* depth targets a caller may ask for: fixed depths, or the depth the body has now
DepthTargets == {0, -(Unit \div 100)}
DepthChoices(uuid) ==
  DepthTargets \cup (IF Registered(uuid) THEN {objects[uuid].position.z} ELSE {})

\* bound of the model: setDepthTarget calls made in one run
MaxDepthCalls == 1

SetDepthTarget(uuid, z) ==
  /\ depthCalls < MaxDepthCalls
  /\ depthCalls' = depthCalls + 1
  /\ objects' = IF Registered(uuid)
                THEN [objects EXCEPT ![uuid] = setDepthTarget(@, z)]
                ELSE objects
  /\ physCall' = Called("setDepthTarget", uuid)
  /\ UNCHANGED <<drags, deltaTime, impulses, ticks, tickParity, now, tweens, detached>>

-----------------------------------------------------------------------------
(* Tweens: animateTo (lines 357-402) and resetObject (lines 508-534).      *)
(* Progress and eased progress are in thousandths; NotANumber stands for   *)
(* the NaN that 0 / 0 produces.                                            *)

NotANumber == -1

\* lines 376-377: Math.min(elapsed / duration, 1).  With duration 0 the
\* quotient is NaN for elapsed 0 and Infinity otherwise.
TweenProgress(elapsed, duration) ==
  IF duration = 0
  THEN IF elapsed = 0 THEN NotANumber ELSE Milli
  ELSE Min(Milli, (elapsed * Milli) \div duration)

\* smoothstep: t * t * (3 - 2 * t), line 71
Smoothstep(t) == (((t * t) \div Milli) * (3 * Milli - 2 * t)) \div Milli

\* easeOutElastic, lines 87-90: 0 at 0, 1 at 1, and in between
\* 2^(-10t) * sin((10t - 0.75) * 2 * pi / 3) + 1, tabulated at the quarters
\* (the frames of the model fall on quarters of the duration)
EaseOutElastic(t) ==
  CASE t = 0 -> 0
    [] t = Milli -> Milli
    [] t <= Milli \div 4 -> 912
    [] t <= Milli \div 2 -> 1016
    [] OTHER -> 1006

\* lines 378-380
Eased(easing, progress) ==
  IF progress = NotANumber THEN NotANumber
  ELSE IF easing = "easeOutElastic" THEN EaseOutElastic(progress)
  ELSE Smoothstep(progress)

Lerp(a, b, e) == a + MulDiv(b - a, e, Milli)
LerpVectors(a, b, e) == Vec(Lerp(a.x, b.x, e), Lerp(a.y, b.y, e), Lerp(a.z, b.z, e))

\* the animate closure of animateTo on the object's transform: lines 375-398
animate(tr, tw, time) ==
  LET progress == TweenProgress(time - tw.startTime, tw.duration)
      eased == Eased(tw.easing, progress)
  IN IF eased = NotANumber \/ tr.nan
     THEN [tr EXCEPT !.nan = TRUE]
     ELSE [tr EXCEPT !.position = LerpVectors(tw.startPosition, tw.endPosition, eased),
                     !.rotation = LerpVectors(tw.startRotation, tw.endRotation, eased),
                     !.scale = LerpVectors(tw.startScale, tw.endScale, eased)]

\* line 393: another frame is requested while progress < 1
Finished(tw, time) ==
  LET progress == TweenProgress(time - tw.startTime, tw.duration)
  IN ~(progress # NotANumber /\ progress < Milli)

\* bound of the model: animateTo loops started in one run
MaxTweens == 1

\* target.field || default: the fields a target carries are named in target.has
OrElse(target, field, default) == IF field \in target.has THEN target[field] ELSE default

\* animateTo's own effect on a registered object: the closure's state and
\* its first, synchronous run.  elapsed is what the clock advanced between
\* lines 373 and 376: nothing, or less than a millisecond.
StartTween(uuid, target, duration, easing, reset, clockMoved) ==
  LET data == objects[uuid]
      tw == [uuid |-> uuid, reset |-> reset,
             startPosition |-> data.position, startRotation |-> data.rotation,
             startScale |-> data.scale,
             endPosition |-> OrElse(target, "position", data.position),
             endRotation |-> OrElse(target, "rotation", data.rotation),
             endScale |-> OrElse(target, "scale", data.scale),
             startTime |-> now, duration |-> duration, easing |-> easing,
             pending |-> FALSE, done |-> FALSE]
      first == IF clockMoved /\ duration = 0 THEN now + 1 ELSE now
  IN [data |-> WithTransform(data, animate(TransformOf(data), tw, first)),
      tween |-> [tw EXCEPT !.done = Finished(tw, first)]]

\* mutant: a new tween on a body ends the tweens still running on it
AnimateToCall_CancelsEarlier(uuid, target, duration, easing, clockMoved) ==
  /\ IF Registered(uuid)
     THEN LET started == StartTween(uuid, target, duration, easing, FALSE, clockMoved)
          IN /\ objects' = [objects EXCEPT ![uuid] = started.data]
             /\ tweens' = Append([i \in DOMAIN tweens |->
                                    IF tweens[i].uuid = uuid
                                    THEN [tweens[i] EXCEPT !.done = TRUE, !.pending = FALSE]
                                    ELSE tweens[i]], started.tween)
     ELSE UNCHANGED <<objects, tweens>>
  /\ physCall' = Called("animateTo", uuid)
  /\ UNCHANGED <<drags, deltaTime, impulses, ticks, tickParity, depthCalls, now, detached>>

\* animateTo(object, target, duration, easing): lines 357-402
AnimateToCall(uuid, target, duration, easing, clockMoved) ==
  /\ IF Registered(uuid)
     THEN LET started == StartTween(uuid, target, duration, easing, FALSE, clockMoved)
          IN /\ objects' = [objects EXCEPT ![uuid] = started.data]
             /\ tweens' = Append(tweens, started.tween)
     ELSE UNCHANGED <<objects, tweens>>
  /\ physCall' = Called("animateTo", uuid)
  /\ UNCHANGED <<drags, deltaTime, impulses, ticks, tickParity, depthCalls, now, detached>>

\* animateTo, at most MaxTweens loops in one run
AnimateTo(uuid, target, duration, easing, clockMoved) ==
  /\ Len(tweens) < MaxTweens
  /\ AnimateToCall(uuid, target, duration, easing, clockMoved)

\* lines 529-533
ZeroMotion(data) ==
  [data EXCEPT !.velocity = Zero3, !.rotationVelocity = Zero3,
               !.spring = [currentZ |-> 0, velocityZ |-> 0, targetZ |-> 0]]

OriginalTransform(data) ==
  [has |-> {"position", "rotation", "scale"},
   position |-> data.originalPosition, rotation |-> data.originalRotation,
   scale |-> data.originalScale]

\* resetObject(object, animate, duration): lines 508-534
ResetObjectCall(uuid, animated, duration, clockMoved) ==
  /\ IF ~Registered(uuid) THEN UNCHANGED <<objects, tweens>>
     ELSE IF animated
     THEN LET started == StartTween(uuid, OriginalTransform(objects[uuid]), duration,
                                    "easeOutElastic", TRUE, clockMoved)
          IN /\ objects' = [objects EXCEPT ![uuid] = ZeroMotion(started.data)]
             /\ tweens' = Append(tweens, started.tween)
     ELSE /\ objects' = [objects EXCEPT ![uuid] =
                           ZeroMotion([@ EXCEPT !.position = objects[uuid].originalPosition,
                                                !.rotation = objects[uuid].originalRotation,
                                                !.scale = objects[uuid].originalScale,
                                                !.nan = FALSE])]
          /\ UNCHANGED tweens
  /\ physCall' = Called("resetObject", uuid)
  /\ UNCHANGED <<drags, deltaTime, impulses, ticks, tickParity, depthCalls, now, detached>>

\* resetObject, its tweens counted with animateTo's
ResetObject(uuid, animated, duration, clockMoved) ==
  /\ animated => Len(tweens) < MaxTweens
  /\ ResetObjectCall(uuid, animated, duration, clockMoved)

Running(tw) == ~tw.done

\* the browser starts the next animation frame: the clock has advanced and
\* every requested callback is due
AnimationFrame(elapsed) ==
  /\ \E i \in DOMAIN tweens : Running(tweens[i])
  /\ \A i \in DOMAIN tweens : ~tweens[i].pending
  /\ now' = now + elapsed
  /\ tweens' = [i \in DOMAIN tweens |-> [tweens[i] EXCEPT !.pending = Running(tweens[i])]]
  /\ UNCHANGED <<drags, objects, deltaTime, impulses, ticks, tickParity, depthCalls, detached,
               physCall>>

\* the animate callback of tween i runs in the current frame, after the
\* callbacks that were requested before it
TweenFrame(i) ==
  LET tw == tweens[i]
  IN /\ tw.pending
     /\ \A j \in 1..(i - 1) : ~tweens[j].pending
     /\ IF Registered(tw.uuid)
        THEN /\ objects' = [objects EXCEPT ![tw.uuid] =
                              WithTransform(@, animate(TransformOf(@), tw, now))]
             /\ UNCHANGED detached
        ELSE /\ detached' = [detached EXCEPT ![tw.uuid] =
                               animate(@, tw, now)]
             /\ UNCHANGED objects
     /\ tweens' = [tweens EXCEPT ![i] = [@ EXCEPT !.pending = FALSE,
                                                  !.done = Finished(tw, now)]]
     /\ physCall' = Called("animate", tw.uuid)
     /\ UNCHANGED <<drags, deltaTime, impulses, ticks, tickParity, depthCalls, now>>

\* inputs of the tweens in the model
Durations == {0, 64}
FrameTimes == {FrameMs, 2 * FrameMs}
Targets ==
  {[has |-> {"position"},
    position |-> Vec(Unit \div 2, 0, 0), rotation |-> Zero3, scale |-> Zero3],
   [has |-> {"rotation", "scale"},
    position |-> Zero3, rotation |-> Vec(0, Unit, 0), scale |-> Vec(2 * Unit, 2 * Unit, 2 * Unit)]}
Easings == {"smoothstep", "easeOutElastic"}

\* positions an object may have when it is registered
StartPositions == {Zero3, Vec(230 * Milli, -400 * Milli, 500 * Milli)}

-----------------------------------------------------------------------------
(* Dragging: startDrag, updateDrag and endDrag (lines 190-234) *)

VecSub(a, b) == Vec(a.x - b.x, a.y - b.y, a.z - b.z)

\* startDrag(object, position) on a registered object: lines 194-198
startDrag(data, position) ==
  [dragStartPosition |-> position, dragStartObjectPosition |-> data.position]
    @@ [data EXCEPT !.isDragging = TRUE, !.velocity = Zero3, !.rotationVelocity = Zero3]

\* updateDrag(object, position) on a registered object: lines 208-223;
\* dt is this.deltaTime || 0.016 in milliseconds
updateDrag(data, position, dt) ==
  IF ~data.isDragging THEN data
  ELSE LET start == data.dragStartObjectPosition
           raw == VecSub(position, data.dragStartPosition)
           delta == IF enableSnap
                    THEN Vec(_snapToGrid(raw.x + start.x) - start.x,
                             _snapToGrid(raw.y + start.y) - start.y, raw.z)
                    ELSE raw
       IN [data EXCEPT !.position = VecAdd(start, delta),
                       !.velocity = VecScale(delta, Milli, IF dt = 0 THEN FrameMs ELSE dt)]

\* mutant: endDrag also stops the body
endDrag_StopsBody(data) == [data EXCEPT !.isDragging = FALSE, !.velocity = Zero3]

\* endDrag(object) on a registered object: line 233
endDrag(data) == [data EXCEPT !.isDragging = FALSE]

\* bound of the model: startDrag calls made in one run
MaxDrags == 1

\* hand positions passed to the drag handlers
DragPoints == {Zero3, Vec(100 * Milli, -50 * Milli, 0)}

StartDrag(uuid, position) ==
  /\ drags < MaxDrags
  /\ drags' = drags + 1
  /\ objects' = IF Registered(uuid)
                THEN [objects EXCEPT ![uuid] = startDrag(@, position)]
                ELSE objects
  /\ physCall' = Called("startDrag", uuid)
  /\ UNCHANGED <<deltaTime, impulses, ticks, tickParity, depthCalls, now, tweens, detached>>

UpdateDrag(uuid, position) ==
  /\ objects' = IF Registered(uuid)
                THEN [objects EXCEPT ![uuid] = updateDrag(@, position, deltaTime)]
                ELSE objects
  /\ physCall' = Called("updateDrag", uuid)
  /\ UNCHANGED <<drags, deltaTime, impulses, ticks, tickParity, depthCalls, now, tweens, detached>>

EndDrag(uuid) ==
  /\ objects' = IF Registered(uuid)
                THEN [objects EXCEPT ![uuid] = endDrag(@)]
                ELSE objects
  /\ physCall' = Called("endDrag", uuid)
  /\ UNCHANGED <<drags, deltaTime, impulses, ticks, tickParity, depthCalls, now, tweens, detached>>

\* the engine after its constructor: lines 50-58
InitPhysics ==
  /\ objects = [uuid \in {} |-> Zero3]
  /\ deltaTime = FrameMs
  /\ impulses = 0
  /\ ticks = 0
  /\ tickParity = 0
  /\ depthCalls = 0
  /\ drags = 0
  /\ now = 0
  /\ tweens = << >>
  /\ detached = [uuid \in SceneObjects |-> NewObject]
  /\ physCall = Called("constructor", "none")

-----------------------------------------------------------------------------
(* The drawing scene (HandDrawingScene.js): the voxels, the undo history   *)
(* and the handler of hand frames.  Positions are in thousandths of a      *)
(* world unit, times in milliseconds.  A voxel is its position: colour and *)
(* size never take part in a decision.                                     *)

\* Math.round(v / g): halves go upward
Round(v, g) == (2 * v + g) \div (2 * g)

\* the grid key template `${round(x / g)},${round(y / g)},${round(z / g)}`
GridKey(position, g) == <<Round(position.x, g), Round(position.y, g), Round(position.z, g)>>

\* createCube(position, color, size): lines 186-216; the key is on a 0.1 grid
createCube(voxels, position) ==
  [cubes |-> Append(voxels.cubes, position),
   occupiedGrid |-> voxels.occupiedGrid \cup {GridKey(position, 100)}]

\* addCube(pos, color, size): lines 263-276; the key it looks up is on a 0.05 grid
addCube(voxels, pos) ==
  LET gridPos == Vec(Round(pos.x, 50) * 50, Round(pos.y, 50) * 50, Round(pos.z, 50) * 50)
  IN IF GridKey(gridPos, 50) \in voxels.occupiedGrid THEN voxels
     ELSE createCube(voxels, gridPos)

\* eraseCube(pos, radius): lines 278-291
eraseCube(voxels, pos, radius) ==
  LET hit(cube) == Dist3(cube, pos) < radius
  IN [cubes |-> SelectSeq(voxels.cubes, LAMBDA cube : ~hit(cube)),
      occupiedGrid |-> voxels.occupiedGrid \
                         {GridKey(voxels.cubes[i], 100) :
                            i \in {j \in DOMAIN voxels.cubes : hit(voxels.cubes[j])}}]

\* the voxels rebuilt from a saved state: lines 245-248, 319-322
Rebuilt(state) ==
  [cubes |-> state, occupiedGrid |-> {GridKey(state[i], 100) : i \in DOMAIN state}]

SaveWindow == 500
UndoMax == 100

\* mutant: the 500 ms test of saveState lost
saveState_Unthrottled(h, state, time) ==
  IF Len(h.undo) > 0 /\ state = h.undo[Len(h.undo)]
  THEN [h EXCEPT !.lastSaveTime = time]
  ELSE LET pushed == Append(h.undo, state)
       IN [undo |-> IF Len(pushed) > UndoMax THEN Tail(pushed) ELSE pushed,
           redo |-> << >>, lastSaveTime |-> time]

\* saveState(): lines 219-238, on h = [undo, redo, lastSaveTime] with the
\* voxels as they are and Date.now() = time
saveState(h, state, time) ==
  IF time - h.lastSaveTime < SaveWindow THEN h
  ELSE IF Len(h.undo) > 0 /\ state = h.undo[Len(h.undo)]
  THEN [h EXCEPT !.lastSaveTime = time]
  ELSE LET pushed == Append(h.undo, state)
       IN [undo |-> IF Len(pushed) > UndoMax THEN Tail(pushed) ELSE pushed,
           redo |-> << >>, lastSaveTime |-> time]

\* what the last handler did, for the claims: the handler, the path the
\* frame took, the pinch sub-state before it, whether the legacy test saw a
\* pinch, the pinch confidence _detectPinch gives the frame's first hand,
\* the calls made in order, and what saveState did
Log(handler, path, pinch, confidence, calls, h, after, timerReset) ==
  [handler |-> handler, path |-> path, before |-> isPinching, pinch |-> pinch,
   confidence |-> confidence, calls |-> calls,
   inWindow |-> "saveState" \in Range(calls) /\ clock - h.lastSaveTime < SaveWindow,
   pushed |-> "saveState" \in Range(calls) /\ after.undo # h.undo,
   timerReset |-> timerReset]

\* the handler's record, and the time of the latest push
Logged(log) ==
  /\ frameLog' = log
  /\ lastPush' = IF log.pushed THEN clock ELSE lastPush

History == [undo |-> historyRef.undo, redo |-> historyRef.redo, lastSaveTime |-> lastSaveTime]
Voxels == [cubes |-> cubes, occupiedGrid |-> occupiedGrid]

SetHistory(h) ==
  /\ historyRef' = [undo |-> h.undo, redo |-> h.redo]
  /\ lastSaveTime' = h.lastSaveTime
SetVoxels(voxels) ==
  /\ cubes' = voxels.cubes
  /\ occupiedGrid' = voxels.occupiedGrid

\* line 807: drawPosition from the index tip
DrawPositionOf(indexTip) ==
  Vec(-(indexTip.x - 500) * 8, -(indexTip.y - 500) * 8, indexTip.z + 300)

\* lines 796-805: the legacy pinch test, pinchDist < 0.06
LegacyIsPinching(landmarks) == Dist3(landmarks[8], landmarks[4]) < 60

\* lastDrawPositionRef is << >> for null, <<position>> otherwise
DistMoved(drawPosition, otherwise) ==
  IF lastDrawPosition # << >> THEN Dist3(drawPosition, lastDrawPosition[1]) ELSE otherwise

\* mutant: the released hand draws whatever the tool is, as the drag case of
\* lines 736-747 is written
LegacySingleHand_AnyMode(landmarks) ==
  LET drawPosition == DrawPositionOf(landmarks[8])
      same == [isPinching |-> isPinching, wasDrawing |-> wasDrawing,
               lastDrawPosition |-> lastDrawPosition, voxels |-> Voxels,
               history |-> History, calls |-> << >>]
  IN IF LegacyIsPinching(landmarks)
     THEN IF currentTool = "draw"
          THEN \* lines 819-826: pinch held, track the position
               [same EXCEPT !.isPinching = TRUE,
                            !.wasDrawing = IF isPinching THEN wasDrawing ELSE FALSE,
                            !.lastDrawPosition = <<drawPosition>>]
          ELSE \* lines 827-836: erase mode
               IF DistMoved(drawPosition, 999 * Milli) > 10
               THEN [same EXCEPT
                       !.history = IF wasDrawing THEN History
                                   ELSE saveState(History, cubes, clock),
                       !.voxels = eraseCube(Voxels, drawPosition, 200),
                       !.lastDrawPosition = <<drawPosition>>,
                       !.wasDrawing = TRUE,
                       !.calls = IF wasDrawing THEN <<"eraseCube">>
                                 ELSE <<"saveState", "eraseCube">>]
               ELSE same
     ELSE \* lines 838-871: no pinch
          LET drawing == isPinching \/ wasDrawing
              adds == drawing /\ DistMoved(drawPosition, 0) > 8
          IN [isPinching |-> FALSE, wasDrawing |-> drawing,
              lastDrawPosition |-> <<drawPosition>>,
              voxels |-> IF adds THEN addCube(Voxels, drawPosition) ELSE Voxels,
              history |-> History,   \* line 852: !wasDrawing is false here, no saveState
              calls |-> IF adds THEN <<"addCube">> ELSE << >>]

\* lines 792-871: the legacy handling of a single hand; calls lists the
\* saveState, eraseCube and addCube calls in the order they are made
LegacySingleHand(landmarks) ==
  LET drawPosition == DrawPositionOf(landmarks[8])
      same == [isPinching |-> isPinching, wasDrawing |-> wasDrawing,
               lastDrawPosition |-> lastDrawPosition, voxels |-> Voxels,
               history |-> History, calls |-> << >>]
  IN IF LegacyIsPinching(landmarks)
     THEN IF currentTool = "draw"
          THEN \* lines 819-826: pinch held, track the position
               [same EXCEPT !.isPinching = TRUE,
                            !.wasDrawing = IF isPinching THEN wasDrawing ELSE FALSE,
                            !.lastDrawPosition = <<drawPosition>>]
          ELSE \* lines 827-836: erase mode
               IF DistMoved(drawPosition, 999 * Milli) > 10
               THEN [same EXCEPT
                       !.history = IF wasDrawing THEN History
                                   ELSE saveState(History, cubes, clock),
                       !.voxels = eraseCube(Voxels, drawPosition, 200),
                       !.lastDrawPosition = <<drawPosition>>,
                       !.wasDrawing = TRUE,
                       !.calls = IF wasDrawing THEN <<"eraseCube">>
                                 ELSE <<"saveState", "eraseCube">>]
               ELSE same
     ELSE \* lines 838-871: no pinch
          LET drawing == isPinching \/ wasDrawing
              adds == drawing /\ currentTool = "draw" /\ DistMoved(drawPosition, 0) > 8
          IN [isPinching |-> FALSE, wasDrawing |-> drawing,
              lastDrawPosition |-> <<drawPosition>>,
              voxels |-> IF adds THEN addCube(Voxels, drawPosition) ELSE Voxels,
              history |-> History,   \* line 852: !wasDrawing is false here, no saveState
              calls |-> IF adds THEN <<"addCube">> ELSE << >>]

\* bound of the model: voxels in the scene
MaxCubes == 1

\* hands the camera shows the scene: open hands that move, and pinches of
\* several widths held where the open hands drew
LoosePinch(wx) == MkHand(Pose(wx, 50, 10, 10, 20, 0))   \* pinch 0.42, within 0.06
SoftPinch(wx) == MkHand(Pose(wx, 36, 10, 10, 20, 0))    \* pinch 0.58, within 0.06
SceneHands ==
  { Relaxed(WristX), Relaxed(WristX + 25),
    PinchHand(WristX + 200), SoftPinch(WristX + 200), LoosePinch(WristX + 200) }
SceneFrames ==
  {<< >>} \cup {<<hand>> : hand \in SceneHands} \cup {<<Relaxed(WristX), Relaxed(WristFar)>>}
\* the frames of a session that erases and redraws
HistoryFrames ==
  { <<Relaxed(WristX)>>, <<PinchHand(WristX + 200)>>, <<PinchEdge(WristX + 200)>> }

\* lines 556-559 with the engine present: updateLastLandmarks stores the
\* snapshots of this very frame, so _detectRotation finds them and reads
\* the undeclared `wrist`
ClassifiedAgainst(frame) == SnapshotOf(frame) @@ lastLandmarks
AnalyzeAfterSnapshot(frame) ==
  _analyzeSingleHand(frame[1], 0, ClassifiedAgainst(frame))

\* hands.onResults with no hand in the frame: lines 529-536
NoHands ==
  /\ IF hasEngine
     THEN Reset
     ELSE UNCHANGED geVars
  /\ prevTwoHandDist' = << >>
  /\ UNCHANGED <<cubes, occupiedGrid, historyRef, lastSaveTime, isPinching, wasDrawing,
                 lastDrawPosition, cameraZ, imageScale>>
  /\ Logged(Log("onResults", "none", FALSE, 0, << >>, History, History, FALSE))

\* hands.onResults with the gesture engine: analyze raises at line 559 and
\* the catch of line 876 ends the handler
EnginePath(frame) ==
  /\ hasEngine
  /\ AnalyzeAfterSnapshot(frame).threw
  /\ lastLandmarks' = ClassifiedAgainst(frame)
  /\ UNCHANGED <<gestureHistory, currentGestures, handStates>>
  /\ Observe("analyze", Thrown(Len(frame)), << >>)
  /\ UNCHANGED <<cubes, occupiedGrid, historyRef, lastSaveTime, isPinching, wasDrawing,
                 lastDrawPosition, viewVars>>
  /\ Logged(Log("onResults", "engine", FALSE, _detectPinch(frame[1]).confidence.v,
                     << >>, History, History, FALSE))

\* lines 686-696: the camera step of a twoHandZoom frame, zoomSpeed 0.3
ZoomCamera(z, direction) ==
  IF direction > 0 THEN Max(1 * Milli, z - 300) ELSE Min(20 * Milli, z + 300)

\* lines 699-711: the image step of a twoHandZoom frame, imageScaleSpeed 0.1
ZoomImage(scale, direction) ==
  IF direction > 0 THEN Min(10 * Milli, scale + 100) ELSE Max(500, scale - 100)

\* lines 769-791: the legacy zoom, 0.2 per frame whose index-tip distance
\* changed by more than 0.015
LegacyZoom(landmarks1, landmarks2) ==
  LET twoHandDist == Dist2(landmarks1[8], landmarks2[8])
      distChange == IF prevTwoHandDist # << >> THEN twoHandDist - prevTwoHandDist[1] ELSE 0
  IN IF prevTwoHandDist # << >> /\ Abs(distChange) > 15
     THEN IF distChange > 0 THEN Max(1 * Milli, cameraZ - 200)
          ELSE Min(20 * Milli, cameraZ + 200)
     ELSE cameraZ

\* hands.onResults without the gesture engine: gestures stays null and the
\* legacy branch of line 766 runs; two hands only zoom the camera
LegacyPath(frame) ==
  /\ ~hasEngine
  /\ UNCHANGED geVars
  /\ IF Len(frame) = 2
     THEN /\ cameraZ' = LegacyZoom(frame[1], frame[2])
          /\ prevTwoHandDist' = <<Dist2(frame[1][8], frame[2][8])>>
          /\ UNCHANGED <<cubes, occupiedGrid, historyRef, lastSaveTime, isPinching, wasDrawing,
                         lastDrawPosition, imageScale>>
          /\ Logged(Log("onResults", "legacy", FALSE,
                             _detectPinch(frame[1]).confidence.v, << >>, History, History, FALSE))
     ELSE LET next == LegacySingleHand(frame[1])
          IN /\ Len(next.voxels.cubes) <= MaxCubes
             /\ SetVoxels(next.voxels)
             /\ SetHistory(next.history)
             /\ isPinching' = next.isPinching
             /\ wasDrawing' = next.wasDrawing
             /\ lastDrawPosition' = next.lastDrawPosition
             /\ prevTwoHandDist' = << >>
             /\ UNCHANGED <<cameraZ, imageScale>>
             /\ Logged(Log("onResults", "legacy", LegacyIsPinching(frame[1]),
                                _detectPinch(frame[1]).confidence.v, next.calls,
                                History, next.history, FALSE))

\* hands.onResults(results): lines 520-880.  The canvas, the HUD and the hand
\* visualisation it feeds (TrackerUpdate, ClearAllHands) hold nothing that
\* the handler reads back.
OnResults(frame) ==
  /\ IF frame = << >> THEN NoHands
     ELSE EnginePath(frame) \/ LegacyPath(frame)
  /\ UNCHANGED <<clock, currentTool, hasEngine, trackVars>>

\* the activeTool prop changes: lines 114-120
SetTool(tool) ==
  /\ currentTool' = tool
  /\ Logged(Log("setTool", "none", FALSE, 0, << >>, History, History, FALSE))
  /\ UNCHANGED <<geVars, cubes, occupiedGrid, historyRef, lastSaveTime, isPinching, wasDrawing,
                 lastDrawPosition, clock, hasEngine, viewVars, trackVars>>

\* window.clearScene(): lines 344-354
ClearScene ==
  LET reset == [undo |-> << >>, redo |-> << >>, lastSaveTime |-> 0]
      saved == saveState(reset, << >>, clock)
  IN /\ SetVoxels(Rebuilt(<< >>))
     /\ SetHistory(saved)
     /\ Logged(Log("clearScene", "none", FALSE, 0, <<"saveState">>, reset, saved, TRUE))
     /\ UNCHANGED <<geVars, isPinching, wasDrawing, lastDrawPosition, clock, currentTool,
                    hasEngine, viewVars, trackVars>>

\* window.loadProject(jsonData) with a well-formed project: lines 312-333
LoadProject(data) ==
  LET reset == [undo |-> << >>, redo |-> << >>, lastSaveTime |-> 0]
      saved == saveState(reset, data, clock)
  IN /\ SetVoxels(Rebuilt(data))
     /\ SetHistory(saved)
     /\ Logged(Log("loadProject", "none", FALSE, 0, <<"saveState">>, reset, saved, TRUE))
     /\ UNCHANGED <<geVars, isPinching, wasDrawing, lastDrawPosition, clock, currentTool,
                    hasEngine, viewVars, trackVars>>

\* time passes between two handlers
ClockStep == 250
StartTime == 1000
\* bound of the model: clock steps in one run
MaxWaits == 4

Wait ==
  /\ clock < StartTime + MaxWaits * ClockStep
  /\ clock' = clock + ClockStep
  /\ Logged(Log("wait", "none", FALSE, 0, << >>, History, History, FALSE))
  /\ UNCHANGED <<geVars, cubes, occupiedGrid, historyRef, lastSaveTime, isPinching, wasDrawing,
                 lastDrawPosition, currentTool, hasEngine, viewVars, trackVars>>

-----------------------------------------------------------------------------
(* HandTracker (HandDrawingScene.js lines 1443-1900).  Joint positions are *)
(* world coordinates in thousandths; the meshes, materials, skeleton lines *)
(* and the fps display value carry nothing the tracker's getters return.   *)

\* smoothingFactor 0.3 (line 68), in tenths
smoothingFactor == 3

JointIds == 0..20

\* the constructor's state: lines 1467-1471
NewTracker ==
  [hands |-> EmptyMap, prevLandmarks |-> EmptyMap, velocities |-> EmptyMap,
   lastUpdateTime |-> StartTime]

\* lines 1611-1613: the target of a joint, x mirrored for the camera
TargetOf(lm) == Vec(-(lm.x - 500) * 5, -(lm.y - 500) * 5, lm.z * 2 + Milli)

\* lines 1616-1619: position += (target - position) * smoothing
Smoothed(position, target) ==
  VecAdd(position, VecScale(VecSub(target, position), smoothingFactor, 10))

\* a THREE.Vector3 whose components are numbers, or all NaN
NumVec(v) == [nan |-> FALSE, v |-> v]
NaNVec == [nan |-> TRUE, v |-> Zero3]

\* lines 1627-1636: one joint's contribution to the hand's velocity; prev is
\* << >> when the previous landmark has no worldX (the raw frame itself)
JointVelocity(velocity, position, prev, dt) ==
  IF dt <= 0 THEN velocity
  ELSE IF prev = << >> \/ velocity.nan THEN NaNVec
  ELSE NumVec(VecAdd(VecScale(velocity.v, 7, 10),
                     VecScale(VecSub(position, prev[1]), 300, dt)))

\* the forEach of lines 1604-1646 as far as the velocity goes, joint i onward
RECURSIVE VelocityFrom(_, _, _, _, _)
VelocityFrom(i, velocity, joints, prevs, dt) ==
  IF i > 20 THEN velocity
  ELSE VelocityFrom(i + 1,
                    JointVelocity(velocity, joints[i],
                                  IF prevs = << >> THEN << >> ELSE <<prevs[1][i]>>, dt),
                    joints, prevs, dt)

\* _createHandMesh: 21 joint meshes, each at the origin (lines 1679-1697)
_createHandMesh == [i \in JointIds |-> Zero3]

\* _updateHand(handId, landmarks, handIndex, deltaTime): lines 1594-1664
_updateHand(tr, handId, landmarks, dt) ==
  LET handGroup == IF handId \in DOMAIN tr.hands THEN tr.hands[handId] ELSE _createHandMesh
      \* this.prevLandmarks.get(handId) || landmarks
      prevs == IF handId \in DOMAIN tr.prevLandmarks THEN <<tr.prevLandmarks[handId]>> ELSE << >>
      velocity == IF handId \in DOMAIN tr.velocities THEN tr.velocities[handId]
                  ELSE NumVec(Zero3)
      joints == [i \in JointIds |-> Smoothed(handGroup[i], TargetOf(landmarks[i]))]
  IN [tr EXCEPT !.hands = (handId :> joints) @@ @,
                !.prevLandmarks = (handId :> joints) @@ @,
                !.velocities = (handId :> VelocityFrom(0, velocity, joints, prevs, dt)) @@ @]

Without(map, key) == [k \in DOMAIN map \ {key} |-> map[k]]

\* mutant: the velocity of a removed hand kept
_removeHand_KeepsVelocity(tr, handId) ==
  IF handId \in DOMAIN tr.hands
  THEN [tr EXCEPT !.hands = Without(@, handId), !.prevLandmarks = Without(@, handId)]
  ELSE tr

\* _removeHand(handId): lines 1813-1827
_removeHand(tr, handId) ==
  IF handId \in DOMAIN tr.hands
  THEN [tr EXCEPT !.hands = Without(@, handId),
                  !.prevLandmarks = Without(@, handId),
                  !.velocities = Without(@, handId)]
  ELSE tr

\* clearAllHands(): lines 1832-1836
clearAllHands(tr) == _removeHand(_removeHand(tr, 0), 1)

\* update(landmarksArray) at time nowMs: lines 1560-1588
update(tr, landmarksArray, nowMs) ==
  LET dt == nowMs - tr.lastUpdateTime
      timed == [tr EXCEPT !.lastUpdateTime = nowMs]
      first == _updateHand(timed, 0, landmarksArray[1], dt)
  IN IF Len(landmarksArray) = 0 THEN clearAllHands(timed)
     ELSE IF Len(landmarksArray) = 1 THEN _removeHand(first, 1)
     ELSE _updateHand(first, 1, landmarksArray[2], dt)

\* getHandVelocity(handIndex): lines 1866-1868
getHandVelocity(tr, handIndex) ==
  IF handIndex \in DOMAIN tr.velocities THEN tr.velocities[handIndex] ELSE NumVec(Zero3)

\* bound of the model: frames handed to the tracker
MaxTrackerFrames == 3

\* handTrackerRef.current.update(results.multiHandLandmarks): line 553
TrackerUpdate(frame) ==
  /\ Len(trackerLog) < MaxTrackerFrames
  /\ trackerLog' = Append(trackerLog, Len(frame))
  /\ tracker' = update(tracker, frame, clock)

\* handTrackerRef.current.clearAllHands(): line 535
ClearAllHands ==
  /\ tracker' = clearAllHands(tracker)
  /\ UNCHANGED trackerLog

\* animate(), the requestAnimationFrame callback: lines 921-940; the
\* physics update with a fixed 0.016, then handTracker.update([])
Animate ==
  /\ Tick
  /\ tracker' = update(tracker, << >>, clock)
  /\ UNCHANGED trackerLog

\* the frames shown to the tracker: one hand at two places, and a second
\* hand next to it
TrackerFrames ==
  { << >>, <<Relaxed(WristX)>>, <<Relaxed(WristX + 25)>>,
    <<Relaxed(WristX), Relaxed(WristFar)>> }

\* the cells the two open hands of the model draw into, and project files
CellA == Vec(-550, 0, 300)
CellB == Vec(-750, 0, 300)
Projects == {<< >>, <<CellA>>}

\* window.undo(): lines 241-250; an empty saved state is a truthy array
window_undo(voxels, h) ==
  IF Len(h.undo) = 0 THEN [voxels |-> voxels, history |-> h]
  ELSE [voxels |-> Rebuilt(h.undo[Len(h.undo)]),
        history |-> [h EXCEPT !.undo = SubSeq(@, 1, Len(@) - 1)]]

\* window.redo(): lines 252-261
window_redo(voxels, h) ==
  IF Len(h.redo) = 0 THEN [voxels |-> voxels, history |-> h]
  ELSE [voxels |-> Rebuilt(h.redo[Len(h.redo)]),
        history |-> [h EXCEPT !.redo = SubSeq(@, 1, Len(@) - 1)]]

\* bound of the model: voxels in a scene edited cell by cell
MaxVoxels == 2

\* the positions handed to addCube and eraseCube
VoxelCells == {Zero3, CellA}

\* a handler of the voxel store that leaves the gesture state, the pinch
\* sub-state, the tool, the view and the tracker alone
VoxelHandler(handler, voxels, h) ==
  /\ SetVoxels(voxels)
  /\ SetHistory(h)
  /\ Logged(Log(handler, "none", FALSE, 0, << >>, History, h, FALSE))
  /\ UNCHANGED <<geVars, isPinching, wasDrawing, lastDrawPosition, clock, currentTool,
                 hasEngine, viewVars, trackVars>>

AddCube(pos) ==
  /\ Len(cubes) < MaxVoxels
  /\ VoxelHandler("addCube", addCube(Voxels, pos), History)

EraseCube(pos) == VoxelHandler("eraseCube", eraseCube(Voxels, pos, 200), History)

SaveState == VoxelHandler("saveState", Voxels, saveState(History, cubes, clock))

Undo ==
  LET undone == window_undo(Voxels, History)
  IN VoxelHandler("undo", undone.voxels, undone.history)

Redo ==
  LET redone == window_redo(Voxels, History)
  IN VoxelHandler("redo", redone.voxels, redone.history)

\* the undo stack of a long session: the empty scene saved on mount, then
\* the scene saved before each erasure of a drawing that is drawn again
LongUndo ==
  [i \in 1..(UndoMax - 1) |->
     IF i = 1 THEN << >> ELSE IF i % 2 = 0 THEN <<CellA, CellB>> ELSE <<CellB>>]

\* the scene once mounted (saveState() at line 974 has pushed the empty scene)
SceneMounted(engine, undo) ==
  /\ cubes = << >>
  /\ occupiedGrid = {}
  /\ historyRef = [undo |-> undo, redo |-> << >>]
  /\ lastSaveTime = StartTime
  /\ clock = StartTime
  /\ isPinching = FALSE
  /\ wasDrawing = FALSE
  /\ lastDrawPosition = << >>
  /\ currentTool = "draw"
  /\ hasEngine = engine
  /\ frameLog = [handler |-> "mount", path |-> "none", before |-> FALSE, pinch |-> FALSE,
                 confidence |-> 0, calls |-> <<"saveState">>, inWindow |-> FALSE,
                 pushed |-> TRUE, timerReset |-> FALSE]
  /\ lastPush = StartTime
  /\ cameraZ = 4 * Milli      \* line 450
  /\ imageScale = Milli       \* line 165
  /\ prevTwoHandDist = << >>  \* line 44
  /\ tracker = NewTracker
  /\ trackerLog = << >>

\* whether the first effect (lines 64-110) found the scene and built the
\* engine depends on the order in which React ran the effects
InitScene ==
  \E engine \in BOOLEAN, undo \in {<< << >> >>, LongUndo} : SceneMounted(engine, undo)

-----------------------------------------------------------------------------
(* Specifications *)

\* a freshly mounted scene next to the two engines
Init == InitGesture /\ watch = Idle /\ InitPhysics /\ SceneMounted(TRUE, << << >> >>)

\* the same with any mounted scene
InitSession == InitGesture /\ watch = Idle /\ InitPhysics /\ InitScene

\* a scene mounted before the engine could be built: onResults takes its
\* legacy branch (lines 766-875)
InitLegacy ==
  /\ InitGesture
  /\ watch = Idle
  /\ InitPhysics
  /\ \E undo \in {<< << >> >>, LongUndo} : SceneMounted(FALSE, undo)

\* the gesture engine driven by its three entry points
Next ==
  \/ \E frame \in Frames : Analyze(frame) /\ UNCHANGED <<watch, physVars, sceneVars>>
  \/ Reset /\ UNCHANGED <<watch, physVars, sceneVars>>
  \/ \E hands \in SnapshotFrames : UpdateLastLandmarks(hands) /\ UNCHANGED <<watch, physVars, sceneVars>>

Spec == Init /\ [][Next]_vars

\* the gesture engine together with the four-frame listener
NextWindow ==
  \/ \E frame \in Frames : Analyze(frame) /\ WatchAnalyze /\ UNCHANGED <<physVars, sceneVars>>
  \/ Reset /\ watch' = Idle /\ UNCHANGED <<physVars, sceneVars>>
  \/ \E hands \in SnapshotFrames : UpdateLastLandmarks(hands) /\ UNCHANGED <<watch, physVars, sceneVars>>

SpecWindow == Init /\ [][NextWindow]_vars

\* the gesture engine fed frames that may hold hand arrays of any length
NextMalformed ==
  \/ \E frame \in Frames \cup MalformedFrames :
       AnalyzeFrame(frame) /\ UNCHANGED <<watch, physVars, sceneVars>>
  \/ Reset /\ UNCHANGED <<watch, physVars, sceneVars>>
  \/ \E hands \in SnapshotFrames : UpdateLastLandmarks(hands) /\ UNCHANGED <<watch, physVars, sceneVars>>

SpecMalformed == Init /\ [][NextMalformed]_vars

\* the physics engine driven by its callers and the render tick
NextPhysics ==
  \/ \E uuid \in Uuids, position \in StartPositions :
       RegisterObject(uuid, position) /\ UNCHANGED <<geVars, watch, sceneVars>>
  \/ \E uuid \in Uuids, force \in Forces : ApplyImpulse(uuid, force) /\ UNCHANGED <<geVars, watch, sceneVars>>
  \/ \E uuid \in Uuids, torque \in Torques :
       ApplyRotationImpulse(uuid, torque) /\ UNCHANGED <<geVars, watch, sceneVars>>
  \/ \E uuid \in Uuids, locked \in BOOLEAN : SetLocked(uuid, locked) /\ UNCHANGED <<geVars, watch, sceneVars>>
  \/ Update(FrameMs) /\ UNCHANGED <<geVars, watch, sceneVars>>

SpecPhysics == Init /\ [][NextPhysics]_vars

\* a body that is pushed, moved by the render tick and reset, with the
\* animation frames of its tweens
NextTween ==
  \/ \E uuid \in Uuids, position \in StartPositions :
       RegisterObject(uuid, position) /\ UNCHANGED <<geVars, watch, sceneVars>>
  \/ \E uuid \in Uuids, force \in Forces : ApplyImpulse(uuid, force) /\ UNCHANGED <<geVars, watch, sceneVars>>
  \/ \E uuid \in Uuids, torque \in Torques :
       ApplyRotationImpulse(uuid, torque) /\ UNCHANGED <<geVars, watch, sceneVars>>
  \/ \E uuid \in Uuids, animated \in BOOLEAN, duration \in Durations, clockMoved \in BOOLEAN :
       ResetObject(uuid, animated, duration, clockMoved) /\ UNCHANGED <<geVars, watch, sceneVars>>
  \/ \E elapsed \in FrameTimes : AnimationFrame(elapsed) /\ UNCHANGED <<geVars, watch, sceneVars>>
  \/ \E i \in DOMAIN tweens : TweenFrame(i) /\ UNCHANGED <<geVars, watch, sceneVars>>
  \/ Update(FrameMs) /\ UNCHANGED <<geVars, watch, sceneVars>>

SpecTween == Init /\ [][NextTween]_vars

\* bound of the model: tweens started on one body in one run
MaxOverlap == 2

\* tweens of two lengths towards two places, and the frames of the browser
OverlapDurations == {32, 64}
OverlapTargets ==
  {[has |-> {"position"},
    position |-> Vec(Unit \div 2, 0, 0), rotation |-> Zero3, scale |-> Zero3],
   [has |-> {"position", "scale"},
    position |-> Vec(0, Unit, 0), rotation |-> Zero3, scale |-> Vec(2 * Unit, 2 * Unit, 2 * Unit)]}

\* a registered body animated and reset by callers that do not wait for the
\* tween before theirs
NextOverlap ==
  \/ \E uuid \in Uuids, position \in StartPositions :
       RegisterObject(uuid, position) /\ UNCHANGED <<geVars, watch, sceneVars>>
  \/ \E uuid \in Uuids, target \in OverlapTargets, duration \in OverlapDurations :
       /\ Len(tweens) < MaxOverlap
       /\ AnimateToCall(uuid, target, duration, "smoothstep", FALSE)
       /\ UNCHANGED <<geVars, watch, sceneVars>>
  \/ \E uuid \in Uuids, duration \in OverlapDurations :
       /\ Len(tweens) < MaxOverlap
       /\ ResetObjectCall(uuid, TRUE, duration, FALSE)
       /\ UNCHANGED <<geVars, watch, sceneVars>>
  \/ \E elapsed \in FrameTimes : AnimationFrame(elapsed) /\ UNCHANGED <<geVars, watch, sceneVars>>
  \/ \E i \in DOMAIN tweens : TweenFrame(i) /\ UNCHANGED <<geVars, watch, sceneVars>>

SpecOverlap == Init /\ [][NextOverlap]_vars

\* every handler that takes an object, called with objects that are
\* registered, were never registered, or were unregistered again (an
\* object is registered once, and no frame is rendered in between)
NextCallers ==
  \/ \E uuid \in Uuids, position \in StartPositions :
       /\ uuid \in DOMAIN detached /\ ~detached[uuid].placed
       /\ RegisterObject(uuid, position) /\ UNCHANGED <<geVars, watch, sceneVars>>
  \/ \E uuid \in Uuids : Registered(uuid) /\ UnregisterObject(uuid) /\ UNCHANGED <<geVars, watch, sceneVars>>
  \/ \E uuid \in SceneObjects, force \in Forces :
       ApplyImpulse(uuid, force) /\ UNCHANGED <<geVars, watch, sceneVars>>
  \/ \E uuid \in SceneObjects, torque \in Torques :
       ApplyRotationImpulse(uuid, torque) /\ UNCHANGED <<geVars, watch, sceneVars>>
  \/ \E uuid \in SceneObjects, position \in DragPoints :
       StartDrag(uuid, position) /\ UNCHANGED <<geVars, watch, sceneVars>>
  \/ \E uuid \in SceneObjects, position \in DragPoints :
       UpdateDrag(uuid, position) /\ UNCHANGED <<geVars, watch, sceneVars>>
  \/ \E uuid \in SceneObjects : EndDrag(uuid) /\ UNCHANGED <<geVars, watch, sceneVars>>
  \/ \E uuid \in SceneObjects, z \in DepthTargets :
       SetDepthTarget(uuid, z) /\ UNCHANGED <<geVars, watch, sceneVars>>
  \/ \E uuid \in SceneObjects, locked \in BOOLEAN :
       SetLocked(uuid, locked) /\ UNCHANGED <<geVars, watch, sceneVars>>
  \/ \E uuid \in SceneObjects, animated \in BOOLEAN, clockMoved \in BOOLEAN :
       ResetObject(uuid, animated, 64, clockMoved) /\ UNCHANGED <<geVars, watch, sceneVars>>
  \/ \E uuid \in SceneObjects, target \in Targets, easing \in Easings, clockMoved \in BOOLEAN :
       AnimateTo(uuid, target, 64, easing, clockMoved) /\ UNCHANGED <<geVars, watch, sceneVars>>

SpecCallers == Init /\ [][NextCallers]_vars

\* the mounted scene driven by the camera's frames and the toolbar
NextScene ==
  \/ \E frame \in SceneFrames : OnResults(frame) /\ UNCHANGED <<watch, physVars>>
  \/ \E tool \in {"draw", "erase"} : SetTool(tool) /\ UNCHANGED <<watch, physVars>>

SpecScene == InitSession /\ [][NextScene]_vars

\* the legacy scene with its undo history: frames, the toolbar, the project
\* menu and the clock
NextHistory ==
  \/ \E frame \in HistoryFrames : OnResults(frame) /\ UNCHANGED <<watch, physVars>>
  \/ \E tool \in {"draw", "erase"} : SetTool(tool) /\ UNCHANGED <<watch, physVars>>
  \/ ClearScene /\ UNCHANGED <<watch, physVars>>
  \/ \E data \in Projects : LoadProject(data) /\ UNCHANGED <<watch, physVars>>
  \/ Wait /\ UNCHANGED <<watch, physVars>>

SpecHistory == InitLegacy /\ [][NextHistory]_vars

\* the voxel store edited cell by cell, saved, undone, redone, loaded and
\* cleared in any order
NextVoxels ==
  \/ \E pos \in VoxelCells : AddCube(pos) /\ UNCHANGED <<watch, physVars>>
  \/ \E pos \in VoxelCells : EraseCube(pos) /\ UNCHANGED <<watch, physVars>>
  \/ SaveState /\ UNCHANGED <<watch, physVars>>
  \/ Undo /\ UNCHANGED <<watch, physVars>>
  \/ Redo /\ UNCHANGED <<watch, physVars>>
  \/ ClearScene /\ UNCHANGED <<watch, physVars>>
  \/ \E data \in Projects : LoadProject(data) /\ UNCHANGED <<watch, physVars>>
  \/ Wait /\ UNCHANGED <<watch, physVars>>

SpecVoxels == Init /\ [][NextVoxels]_vars

\* two hands held in front of the camera, their index tips 500, 517 or 600
\* apart (wrists 300 apart), with a single hand or no hand in between
ZoomFrames ==
  { << >>, <<Relaxed(WristX)>>,
    <<Relaxed(WristX), Spread(WristFar, 400)>>,
    <<Relaxed(WristX), Spread(WristFar, 417)>>,
    <<Relaxed(WristX), Spread(WristFar, 500)>> }

NextZoom ==
  \/ \E frame \in ZoomFrames : OnResults(frame) /\ UNCHANGED <<watch, physVars>>

SpecZoom == InitSession /\ [][NextZoom]_vars

\* the hand visualisation fed by the camera callback while time passes
NextTracker ==
  \/ \E frame \in TrackerFrames :
       TrackerUpdate(frame) /\ UNCHANGED <<geVars, watch, physVars, controlVars>>
  \/ ClearAllHands /\ UNCHANGED <<geVars, watch, physVars, controlVars>>
  \/ Wait /\ UNCHANGED <<watch, physVars>>

SpecTracker == Init /\ [][NextTracker]_vars

\* hand frames reaching the tracker while the render loop runs
NextRender ==
  \/ \E frame \in TrackerFrames :
       TrackerUpdate(frame) /\ UNCHANGED <<geVars, watch, physVars, controlVars>>
  \/ Animate /\ UNCHANGED <<geVars, watch, controlVars>>
  \/ Wait /\ UNCHANGED <<watch, physVars>>

SpecRender == Init /\ [][NextRender]_vars

\* a body set in motion during the first MaxTicks frames and then left to
\* the render loop, which never stops calling update
NextSettle ==
  \/ \E uuid \in Uuids, position \in StartPositions :
       RegisterObject(uuid, position) /\ UNCHANGED <<geVars, watch, sceneVars>>
  \/ \E uuid \in Uuids, force \in Forces :
       ticks < MaxTicks /\ ApplyImpulse(uuid, force) /\ UNCHANGED <<geVars, watch, sceneVars>>
  \/ \E uuid \in Uuids, torque \in Torques :
       ticks < MaxTicks /\ ApplyRotationImpulse(uuid, torque) /\ UNCHANGED <<geVars, watch, sceneVars>>
  \/ Tick /\ UNCHANGED <<geVars, watch, sceneVars>>

\* a body whose depth target is set during the first MaxTicks frames and
\* that receives no other input
NextDepth ==
  \/ \E uuid \in Uuids, position \in StartPositions :
       RegisterObject(uuid, position) /\ UNCHANGED <<geVars, watch, sceneVars>>
  \/ \E uuid \in Uuids : \E z \in DepthChoices(uuid) :
       ticks < MaxTicks /\ SetDepthTarget(uuid, z) /\ UNCHANGED <<geVars, watch, sceneVars>>
  \/ Tick /\ UNCHANGED <<geVars, watch, sceneVars>>

\* the render loop keeps requesting frames, so another update call always comes
SpecDepth == Init /\ [][NextDepth]_vars /\ WF_tickParity(tickParity' = 1 - tickParity)

SpecSettle == Init /\ [][NextSettle]_vars /\ WF_tickParity(tickParity' = 1 - tickParity)

\* impulses that bring a body of mass 1 to the speed limit of 5
FullForces == {Vec(8 * Unit, 6 * Unit, 0), Vec(5 * Unit, 0, 0)}

\* a registered body pushed to full speed before the first frame and then
\* left to the render loop
NextDecay ==
  \/ \E uuid \in Uuids, position \in StartPositions :
       RegisterObject(uuid, position) /\ UNCHANGED <<geVars, watch, sceneVars>>
  \/ \E uuid \in Uuids, force \in FullForces :
       /\ ticks = 0
       /\ Registered(uuid)
       /\ ApplyImpulse(uuid, force)
       /\ UNCHANGED <<geVars, watch, sceneVars>>
  \/ Coast /\ UNCHANGED <<geVars, watch, sceneVars>>

SpecDecay == Init /\ [][NextDecay]_vars

\* a body that is registered, dragged by the hand and released, while the
\* render loop keeps calling update; a frame of the loop may take no time
NextDrag ==
  \/ \E uuid \in Uuids, position \in StartPositions :
       RegisterObject(uuid, position) /\ UNCHANGED <<geVars, watch, sceneVars>>
  \/ \E uuid \in Uuids, position \in DragPoints :
       StartDrag(uuid, position) /\ UNCHANGED <<geVars, watch, sceneVars>>
  \/ \E uuid \in Uuids, position \in DragPoints :
       UpdateDrag(uuid, position) /\ UNCHANGED <<geVars, watch, sceneVars>>
  \/ \E uuid \in Uuids : EndDrag(uuid) /\ UNCHANGED <<geVars, watch, sceneVars>>
  \/ \E dt \in {0, FrameMs} : Update(dt) /\ UNCHANGED <<geVars, watch, sceneVars>>

SpecDrag == Init /\ [][NextDrag]_vars

\* a registered body under every handler that writes its velocities, in any
\* order, while the render loop calls update; resetObject is called without
\* animation (the tween of an animated reset writes the transform only)
NextBody ==
  \/ \E uuid \in Uuids, position \in StartPositions :
       RegisterObject(uuid, position) /\ UNCHANGED <<geVars, watch, sceneVars>>
  \/ \E uuid \in Uuids, locked \in BOOLEAN :
       Registered(uuid) /\ SetLocked(uuid, locked) /\ UNCHANGED <<geVars, watch, sceneVars>>
  \/ \E uuid \in Uuids, position \in DragPoints :
       Registered(uuid) /\ StartDrag(uuid, position) /\ UNCHANGED <<geVars, watch, sceneVars>>
  \/ \E uuid \in Uuids, position \in DragPoints :
       Registered(uuid) /\ UpdateDrag(uuid, position) /\ UNCHANGED <<geVars, watch, sceneVars>>
  \/ \E uuid \in Uuids :
       Registered(uuid) /\ EndDrag(uuid) /\ UNCHANGED <<geVars, watch, sceneVars>>
  \/ \E uuid \in Uuids, force \in Forces :
       Registered(uuid) /\ ApplyImpulse(uuid, force) /\ UNCHANGED <<geVars, watch, sceneVars>>
  \/ \E uuid \in Uuids, torque \in Torques :
       /\ Registered(uuid)
       /\ ApplyRotationImpulse(uuid, torque)
       /\ UNCHANGED <<geVars, watch, sceneVars>>
  \/ \E uuid \in Uuids :
       /\ Registered(uuid)
       /\ ResetObject(uuid, FALSE, 0, FALSE)
       /\ UNCHANGED <<geVars, watch, sceneVars>>
  \/ Update(FrameMs) /\ UNCHANGED <<geVars, watch, sceneVars>>

SpecBody == Init /\ [][NextBody]_vars

\* a body that is registered, or reset at once, and then only updated
NextRest ==
  \/ \E uuid \in Uuids, position \in StartPositions :
       RegisterObject(uuid, position) /\ UNCHANGED <<geVars, watch, sceneVars>>
  \/ \E uuid \in Uuids :
       /\ Registered(uuid)
       /\ ResetObject(uuid, FALSE, 0, FALSE)
       /\ UNCHANGED <<geVars, watch, sceneVars>>
  \/ \E dt \in FrameTimes : Update(dt) /\ UNCHANGED <<geVars, watch, sceneVars>>

SpecRest == Init /\ [][NextRest]_vars

-----------------------------------------------------------------------------
(* Claims about the gesture engine *)

RECURSIVE WellFormedEvents(_, _)
\* every start is for a name without an open start, every update and end for
\* a name with one
WellFormedEvents(open, evs) ==
  IF evs = << >> THEN TRUE
  ELSE LET e == Head(evs)
       IN /\ IF e.kind = "start" THEN e.name \notin open ELSE e.name \in open
          /\ WellFormedEvents(OpenAfterEvents(open, <<e>>), Tail(evs))

\* C1: for any sequence of analyze and reset calls, the events delivered for
\* each gesture name are repetitions of start, update*, end: no update or end
\* without an open start, no second start before the end.
C1_Lifecycle == WellFormedEvents(openBefore, events)

\* C1 witness: one call that updates an open activation and ends another.
C1_Witness ==
  /\ \E i \in DOMAIN events : events[i].kind = "update"
  /\ \E i \in DOMAIN events : events[i].kind = "end"

\* C2 (as claimed): every analyze call on a well-formed frame returns a result
\* and never raises, also when a previous-landmark snapshot exists.
C2_AnalyzeNeverRaises == lastCall = "analyze" => result.kind = "ok"

EndedOnce(evs, entry) ==
  /\ CountEvents(evs, "end", entry.name) = 1
  /\ \A i \in DOMAIN evs :
       (evs[i].kind = "end" /\ evs[i].name = entry.name) => evs[i].confidence = entry.confidence

\* C3 (as claimed): after analyze on a non-empty frame, every gesture active
\* before the call that is not a thresholded candidate of the frame got exactly
\* one end event carrying its recorded confidence and is no longer active, and
\* without any candidate no start or update is emitted.
C3_EndsNonCandidates ==
  (lastCall = "analyze" /\ result.handCount > 0) =>
    /\ \A i \in DOMAIN activeBefore :
         ~Exceeds(result, activeBefore[i].name) =>
           /\ EndedOnce(events, activeBefore[i])
           /\ activeBefore[i].name \notin CurrentNames(currentGestures)
    /\ \A name \in CurrentNames(currentGestures) : Exceeds(result, name)
    /\ (\A name \in DOMAIN result.gestures : ~Exceeds(result, name)) =>
         \A i \in DOMAIN events : events[i].kind = "end"

\* C3 restricted to the calls that return: this much holds.
C3_WhenAnalyzeReturns == result.kind = "ok" => C3_EndsNonCandidates

Cleared ==
  \/ lastCall = "reset"
  \/ lastCall = "analyze" /\ result.kind = "ok" /\ result.handCount = 0

\* C4: an empty frame, and likewise reset(), emits exactly one end event per
\* gesture active before the call, leaves no gesture active, clears the
\* per-hand state and every previous-landmark snapshot, and analyze([])
\* returns primaryGesture = null; in the next non-empty frame drag, rotation
\* and twoHandRotation are inactive.
C4_EmptyFrameClears ==
  /\ [](Cleared =>
          /\ Len(events) = Len(activeBefore)
          /\ \A i \in DOMAIN activeBefore : EndedOnce(events, activeBefore[i])
          /\ currentGestures = << >>
          /\ handStates = EmptyMap
          /\ lastLandmarks = EmptyMap
          /\ lastCall = "analyze" => result.primaryGesture = "null")
  /\ [][(Cleared /\ lastCall' = "analyze" /\ result'.handCount > 0) =>
          /\ result'.kind = "ok"
          /\ \A name \in {"drag", "rotation", "twoHandRotation"} \cap DOMAIN result'.gestures :
               ~result'.gestures[name].isActive]_vars

\* C4 witness: an empty frame that ended two active gestures.
C4_Witness ==
  lastCall = "analyze" /\ result.handCount = 0 /\ Len(events) = 2

NumericGestures(res) == {name \in DOMAIN res.gestures : IsNum(res.gestures[name].confidence)}

\* C5: after analyze on a non-empty frame, primaryGesture is null exactly when
\* no result exceeds confidenceThreshold; otherwise it names a result above
\* the threshold whose confidence no other result exceeds, and
\* primaryConfidence is that result's confidence.
C5_PrimaryIsTopCandidate ==
  (lastCall = "analyze" /\ result.kind = "ok" /\ result.handCount > 0) =>
    /\ result.primaryGesture = "null" <=>
         \A name \in DOMAIN result.gestures : ~Exceeds(result, name)
    /\ result.primaryGesture # "null" =>
         /\ Exceeds(result, result.primaryGesture)
         /\ \A name \in NumericGestures(result) :
              result.gestures[name].confidence.v
                <= result.gestures[result.primaryGesture].confidence.v
         /\ result.primaryConfidence = result.gestures[result.primaryGesture].confidence.v

\* C5 witness: two candidates of different confidence, the higher one primary.
C5_Witness ==
  /\ result.kind = "ok"
  /\ result.primaryGesture = "closedFist"
  /\ Exceeds(result, "pinch")
  /\ result.gestures["pinch"].confidence.v < result.primaryConfidence

\* C6 (as claimed): a name that is not active, exceeds the threshold in three
\* consecutive non-empty frames and is below it in the fourth gets exactly one
\* start, at most two updates and exactly one end over the four calls,
\* whatever the other gestures' confidences are.
C6_OneActivationPerWindow ==
  watch.phase = 4 => (watch.starts = 1 /\ watch.updates <= 2 /\ watch.ends = 1)

\* C6 (amended): over such a window the name gets at most two updates; exactly
\* one start and exactly one end if it is the top-ranked candidate of at least
\* one of the three frames, and no event at all if another candidate outranks
\* it in all three.
C6_ActivationNeedsTopRank ==
  watch.phase = 4 =>
    /\ watch.updates <= 2
    /\ watch.top => (watch.starts = 1 /\ watch.ends = 1)
    /\ ~watch.top => (watch.starts = 0 /\ watch.updates = 0 /\ watch.ends = 0)

\* C6 witness: a completed window with one start, two updates and one end.
C6_Witness ==
  watch.phase = 4 /\ watch.starts = 1 /\ watch.updates = 2 /\ watch.ends = 1

\* the order in which the claim ranks equal confidences
DeclarationOrder ==
  <<"pinch", "openPalm", "closedFist", "drag", "rotation",
    "twoHandZoom", "twoHandRotation", "twoHandPinch">>

TopNames(res) ==
  {name \in NumericGestures(res) :
     /\ Exceeds(res, name)
     /\ \A other \in NumericGestures(res) :
          res.gestures[other].confidence.v <= res.gestures[name].confidence.v}

C8_ThresholdIsExclusive ==
  result.kind = "ok" =>
    /\ \A name \in DOMAIN result.gestures :
         result.gestures[name].confidence = Num(confidenceThreshold) =>
           /\ result.primaryGesture # name
           /\ CountEvents(events, "start", name) = 0
    /\ ("pinch" \in DOMAIN result.gestures
          /\ result.gestures["pinch"].isIndexBent
          /\ result.gestures["pinch"].isThumbBent
          /\ 2 * result.gestures["pinch"].distance = pinchThreshold) =>
         /\ result.gestures["pinch"].confidence = Num(confidenceThreshold)
         /\ result.primaryGesture # "pinch"

\* C8 witness: the bent pinch at half of pinchThreshold was analysed.
C8_Witness ==
  /\ result.kind = "ok"
  /\ "pinch" \in DOMAIN result.gestures
  /\ result.gestures["pinch"].isIndexBent /\ result.gestures["pinch"].isThumbBent
  /\ 2 * result.gestures["pinch"].distance = pinchThreshold

\* C9 (as claimed): every result in analyze(...).gestures has a confidence
\* that is a number within [0,1].
C9_ConfidenceInUnitInterval ==
  result.kind = "ok" =>
    \A name \in DOMAIN result.gestures :
      /\ IsNum(result.gestures[name].confidence)
      /\ result.gestures[name].confidence.v \in 0..One

-----------------------------------------------------------------------------
(* Claims about the physics engine *)

Transform(data) == <<data.position, data.rotation, data.velocity, data.rotationVelocity>>

\* C10: while a body is locked, applyImpulse, applyRotationImpulse and update
\* leave its position, rotation, velocity and rotation velocity unchanged (and
\* leave it locked), and the call returns without raising.
C10_LockedBodyIsUnaffected ==
  [][\A uuid \in DOMAIN objects :
       (objects[uuid].isLocked
          /\ physCall'.op \in {"applyImpulse", "applyRotationImpulse", "update"})
       => /\ uuid \in DOMAIN objects'
          /\ Transform(objects'[uuid]) = Transform(objects[uuid])
          /\ objects'[uuid].isLocked
          /\ ~physCall'.raised]_vars

\* C10 witness: a locked body lying off its depth target, after an impulse
\* and an update were both offered to it.
C10_Witness ==
  \E uuid \in DOMAIN objects :
    /\ objects[uuid].isLocked
    /\ objects[uuid].position.z # objects[uuid].spring.targetZ
    /\ impulses > 0
    /\ ticks > 0
    /\ physCall.op = "update"

AtRest(data) == data.velocity = Zero3 /\ data.rotationVelocity = Zero3

\* C11: a registered, unlocked, non-dragged body that receives no further
\* impulse eventually has velocity (0,0,0) and rotation velocity 0 on every
\* axis under repeated update calls, and keeps both from then on.
C11_MotionComesToRest ==
  <>[](\A uuid \in DOMAIN objects : AtRest(objects[uuid]))

\* C11 witness: a body that was pushed and spun, has moved, and is at rest
\* after the render loop ran on.
C11_Witness ==
  \E uuid \in DOMAIN objects :
    /\ AtRest(objects[uuid])
    /\ impulses > 0
    /\ ticks = MaxTicks
    /\ objects[uuid].position # objects[uuid].originalPosition
    /\ objects[uuid].rotation # objects[uuid].originalRotation
    /\ physCall.op = "update"

DepthSettled(data) == data.position.z = data.spring.targetZ /\ data.spring.velocityZ = 0

\* C12: after setDepthTarget on an unlocked body, repeated update calls
\* eventually reach position.z = targetZ with spring.velocityZ = 0, and every
\* later update keeps both.
C12_DepthSpringSettles ==
  <>[](\A uuid \in DOMAIN objects : DepthSettled(objects[uuid]))

\* What does hold: the depth reaches the target and stays there.
C12_DepthReachesTarget ==
  <>[](\A uuid \in DOMAIN objects : objects[uuid].position.z = objects[uuid].spring.targetZ)

\* tween i, started by resetObject, runs its last frame in this step
ResetTweenCompletes(i) ==
  /\ i \in DOMAIN tweens'
  /\ tweens'[i].reset
  /\ tweens'[i].done
  /\ (i \in DOMAIN tweens => ~tweens[i].done)

AtOriginalTransform(data) ==
  /\ ~data.nan
  /\ data.position = data.originalPosition
  /\ data.rotation = data.originalRotation
  /\ data.scale = data.originalScale

MotionZeroed(data) ==
  data.velocity = Zero3 /\ data.rotationVelocity = Zero3 /\ data.spring.velocityZ = 0

\* C13: resetObject(body, true, duration) zeroes velocity, rotationVelocity
\* and the spring velocity at the call; at the frame in which its tween
\* reaches elapsed >= duration the body's position, rotation and scale equal
\* the transform captured at registerObject; a finished tween requests no
\* further frame; all this however update calls interleave with the frames.
C13_ResetTweenEndsAtOriginal ==
  [][/\ \A uuid \in DOMAIN objects' :
          physCall'.op = "resetObject" /\ physCall'.uuid = uuid
          => MotionZeroed(objects'[uuid])
     /\ \A i \in DOMAIN tweens' :
          ResetTweenCompletes(i) => AtOriginalTransform(objects'[tweens'[i].uuid])
     /\ \A i \in DOMAIN tweens :
          tweens[i].done => tweens'[i].done /\ ~tweens'[i].pending]_vars

\* What does hold: the same, for a tween of positive duration that starts
\* from a body whose transform is a number.
C13_PositiveDurationEndsAtOriginal ==
  [][/\ \A uuid \in DOMAIN objects' :
          physCall'.op = "resetObject" /\ physCall'.uuid = uuid
          => MotionZeroed(objects'[uuid])
     /\ \A i \in DOMAIN tweens' :
          ResetTweenCompletes(i) /\ tweens'[i].duration > 0
          => AtOriginalTransform(objects'[tweens'[i].uuid])
     /\ \A i \in DOMAIN tweens :
          tweens[i].done => tweens'[i].done /\ ~tweens'[i].pending]_vars

-----------------------------------------------------------------------------
(* Claims about the two-hand zoom and malformed frames *)

TwoHandResult(res, distance) ==
  /\ res.kind = "ok"
  /\ res.handCount = 2
  /\ res.gestures["twoHandZoom"].currentDistance = distance

\* C14: when a two-hand frame with index tips 0.5 apart is followed by one
\* with index tips 0.6 apart (wrists 0.3 apart), the second analyze call
\* returns twoHandZoom with isActive = true, direction = +1 and confidence = 1.
C14_ZoomFollowsDistanceChange ==
  [][(/\ lastCall = "analyze" /\ TwoHandResult(result, 500)
      /\ lastCall' = "analyze" /\ TwoHandResult(result', 600))
     => /\ result'.gestures["twoHandZoom"].isActive
        /\ result'.gestures["twoHandZoom"].direction = 1
        /\ result'.gestures["twoHandZoom"].confidence = Num(One)]_vars

\* C15: an analyze call on a frame that holds a hand whose landmark count is
\* not 21 raises an error and leaves the active gestures, the landmark
\* snapshots, the gesture history and the per-hand state as they were.
C15_MalformedFrameRejected ==
  [][\A frame \in MalformedFrames :
       AnalyzeFrame(frame)
         => /\ result'.kind = "throw"
            /\ UNCHANGED <<currentGestures, lastLandmarks, gestureHistory, handStates>>]_vars

-----------------------------------------------------------------------------
(* Claims about calls on objects the physics engine does not hold *)

\* a step that is one of the nine handlers called with an object that is
\* not in the engine's map
UnregisteredCall ==
  \E uuid \in SceneObjects :
    /\ ~Registered(uuid)
    /\ \/ \E force \in Forces : ApplyImpulse(uuid, force)
       \/ \E torque \in Torques : ApplyRotationImpulse(uuid, torque)
       \/ \E position \in DragPoints : StartDrag(uuid, position) \/ UpdateDrag(uuid, position)
       \/ EndDrag(uuid)
       \/ \E z \in DepthTargets : SetDepthTarget(uuid, z)
       \/ \E locked \in BOOLEAN : SetLocked(uuid, locked)
       \/ \E animated \in BOOLEAN, clockMoved \in BOOLEAN :
            ResetObject(uuid, animated, 64, clockMoved)
       \/ \E target \in Targets, easing \in Easings, clockMoved \in BOOLEAN :
            AnimateTo(uuid, target, 64, easing, clockMoved)

\* C16: a handler called with an unregistered object reports an error to its
\* caller and changes neither that object's transform nor any registered body.
C16_UnregisteredCallReported ==
  [][UnregisteredCall => /\ physCall'.raised
                         /\ UNCHANGED <<objects, detached, tweens>>]_vars

\* C16, the part that holds: such a call changes neither the object's
\* transform nor any registered body, and starts no tween.
C16_UnregisteredCallChangesNothing ==
  [][UnregisteredCall => UNCHANGED <<objects, detached, tweens>>]_vars

-----------------------------------------------------------------------------
(* Claims about the drawing scene *)

\* with the engine present, analyze raises on every frame that shows a hand:
\* the switch of lines 611-765 is never entered
EnginePathRaises ==
  \A frame \in SceneFrames \ {<< >>} : AnalyzeAfterSnapshot(frame).threw

\* the step is a hand frame handled by hands.onResults
FrameHandled == frameLog'.handler = "onResults"

\* a pinch is held in the frame of this step: the frame shows a pinch, or
\* the sub-state is pinching once the frame is handled (the frame that
\* releases a pinch is not counted)
PinchHeld == frameLog'.pinch \/ isPinching'

\* C17: in a frame handled while a pinch is held (the sub-state is pinching,
\* or the frame shows a pinch) no voxel is added and none is erased, whatever
\* the tool and the path.
C17_NoVoxelChangeWhilePinched ==
  [][(FrameHandled /\ PinchHeld) => cubes' = cubes]_vars

\* C17, the part that holds: with the draw tool a pinched frame changes no voxel.
C17_NoDrawingWhilePinched ==
  [][(FrameHandled /\ currentTool = "draw" /\ PinchHeld) => cubes' = cubes]_vars

Half == One \div 2

\* C18: the sub-state leaves pinching only in a frame whose pinch confidence
\* is below 0.5, and a frame whose pinch confidence lies between 0.5 and the
\* start threshold leaves the sub-state as it was.
C18_PinchHysteresis ==
  [][/\ (isPinching /\ ~isPinching') => (FrameHandled /\ frameLog'.confidence < Half)
     /\ (FrameHandled /\ frameLog'.path # "none"
           /\ frameLog'.confidence >= Half /\ frameLog'.confidence <= confidenceThreshold)
          => isPinching' = isPinching]_vars

\* C18, the part that holds: the sub-state leaves pinching only in a frame
\* whose pinch confidence is below 0.5.
C18_ReleaseOnlyBelowHalf ==
  [][(isPinching /\ ~isPinching') => (FrameHandled /\ frameLog'.confidence < Half)]_vars

\* C19: a hand frame that adds or erases a voxel has called saveState()
\* earlier in the same handler.
C19_SaveStateBeforeMutation ==
  [][(FrameHandled /\ cubes' # cubes)
       => \E i \in DOMAIN frameLog'.calls :
            /\ frameLog'.calls[i] \in {"addCube", "eraseCube"}
            /\ \E j \in 1..(i - 1) : frameLog'.calls[j] = "saveState"]_vars

\* C20: a push on the undo stack comes at least 500 ms after the push before
\* it unless loadProject or clearScene reset the timer, a saveState() call
\* inside the window changes neither stack, and the undo stack never holds
\* more than 100 saved scenes.
C20_SaveStateThrottled ==
  /\ [](Len(historyRef.undo) <= UndoMax)
  /\ [][/\ (frameLog'.pushed /\ ~frameLog'.timerReset) => clock - lastPush >= SaveWindow
        /\ frameLog'.inWindow => historyRef' = historyRef]_vars

\* C20 witness: a full undo stack whose oldest scene has been dropped, after
\* a saveState() call inside the window that pushed nothing.
C20_Witness ==
  /\ Len(historyRef.undo) = UndoMax
  /\ historyRef.undo[1] # << >>
  /\ frameLog.inWindow
  /\ ~frameLog.pushed
  /\ lastPush > StartTime

-----------------------------------------------------------------------------
(* C21: camera distance and image scale under two-hand zoom *)

\* the index-tip distance of the latest two-hand frame the handler kept:
\* the engine's snapshots, or prevTwoHandDistRef without the engine
KeptIndexDistance ==
  IF hasEngine
  THEN IF {"hand_0_index", "hand_1_index"} \subseteq DOMAIN lastLandmarks
       THEN <<Dist3(lastLandmarks["hand_0_index"], lastLandmarks["hand_1_index"])>>
       ELSE << >>
  ELSE prevTwoHandDist

\* the twoHandZoom result of lines 458-499 for a frame whose previous
\* two-hand distance is the kept one
ZoomOf(frame) ==
  _detectTwoHandZoom(frame[1], frame[2], <<[twoHandDistance |-> Num(KeptIndexDistance[1])]>>)

\* auxiliary to C21: the camera distance stays within [1, 20] and the image
\* scale within [0.5, 10]
C21_ViewWithinBounds ==
  /\ cameraZ >= 1 * Milli /\ cameraZ <= 20 * Milli
  /\ imageScale >= 500 /\ imageScale <= 10 * Milli

\* C21: a frame of two hands whose twoHandZoom confidence is above 0.6 moves
\* the camera by one fixed step in the gesture's direction, clamped to
\* [1, 20]; a frame at or below 0.6 leaves the camera and the image alone
C21_ZoomFollowsConfidence ==
  [][\A frame \in ZoomFrames :
       (OnResults(frame) /\ Len(frame) = 2 /\ KeptIndexDistance # << >>) =>
          LET zoom == ZoomOf(frame)
          IN IF JsGt(zoom.confidence, Num((6 * One) \div 10))
             THEN \E step \in {200, 300} :
                    cameraZ' = IF zoom.direction > 0 THEN Max(1 * Milli, cameraZ - step)
                               ELSE Min(20 * Milli, cameraZ + step)
             ELSE cameraZ' = cameraZ /\ imageScale' = imageScale]_vars

-----------------------------------------------------------------------------
(* C22, C23: the hand visualisation's smoothing state *)

\* slot handId holds no hand before the step
SlotEmpty(handId) == handId \notin DOMAIN tracker.hands

\* C22: on the first frame in which a slot is occupied every joint's smoothed
\* position equals the target derived from the frame's raw landmark
C22_FirstFrameAtTarget ==
  [][\A frame \in TrackerFrames : \A handId \in {0, 1} :
       (TrackerUpdate(frame) /\ handId < Len(frame) /\ SlotEmpty(handId)) =>
          \A i \in JointIds :
             tracker'.hands[handId][i] = TargetOf(frame[handId + 1][i])]_vars

\* everything the tracker holds for one slot, and what its getter returns
SlotOf(tr, handId) ==
  [hands |-> IF handId \in DOMAIN tr.hands THEN <<tr.hands[handId]>> ELSE << >>,
   prevLandmarks |-> IF handId \in DOMAIN tr.prevLandmarks THEN <<tr.prevLandmarks[handId]>>
                     ELSE << >>,
   velocity |-> getHandVelocity(tr, handId)]

\* a tracker that has seen no frame, its clock where this tracker's is
FreshTracker == [NewTracker EXCEPT !.lastUpdateTime = tracker.lastUpdateTime]

\* C23: after update with a frame in which a slot is absent the tracker
\* holds nothing for the slot and its velocity reads zero; a slot occupied
\* again is in the state a tracker that never saw a hand reaches on that frame
C23_AbsentSlotDropped ==
  [][\A frame \in TrackerFrames : \A handId \in {0, 1} :
       TrackerUpdate(frame) =>
         /\ handId >= Len(frame) =>
               /\ SlotOf(tracker', handId) = SlotOf(NewTracker, handId)
               /\ getHandVelocity(tracker', handId) = NumVec(Zero3)
         /\ (handId < Len(frame) /\ SlotEmpty(handId)) =>
               SlotOf(tracker', handId) = SlotOf(update(FreshTracker, frame, clock), handId)]_vars

\* the second hand was tracked, left the frame while the first stayed and
\* moved, and is tracked again after time has passed
C23_Witness ==
  /\ Len(trackerLog) = 3
  /\ trackerLog = <<2, 1, 2>>
  /\ 1 \in DOMAIN tracker.hands
  /\ tracker.hands[1] # tracker.hands[0]
  /\ tracker.velocities[1].nan
  /\ tracker.lastUpdateTime > StartTime

-----------------------------------------------------------------------------
(* C24: how long a body at full speed coasts *)

\* the body was pushed to speed 5 before the first update and has coasted
\* for `ticks` update calls since
Coasting(uuid) == uuid \in DOMAIN objects /\ impulses > 0

\* C24 as stated: a body of speed 5 has its velocity zeroed after fewer than
\* 60 update calls
C24_StopsWithin60 ==
  \A uuid \in Uuids : (Coasting(uuid) /\ ticks >= 59) => objects[uuid].velocity = Zero3

\* C24 amended: 5 * 0.85^n falls below 0.0001 at n = 67; the speed is still
\* at least 0.0001 after each of the first 66 update calls and the velocity
\* is zero after the 67th and every later one
C24_StopsAtStep67 ==
  \A uuid \in Uuids :
    Coasting(uuid) =>
      /\ ticks < 67 => VecLength(objects[uuid].velocity) >= RestSpeed
      /\ ticks >= 67 => objects[uuid].velocity = Zero3

\* C24 witness: the 67th update has just zeroed the velocity of a body that
\* has moved from where it was registered
C24_Witness ==
  \E uuid \in Uuids :
    /\ Coasting(uuid)
    /\ ticks = 67
    /\ physCall.op = "update"
    /\ objects[uuid].velocity = Zero3
    /\ objects[uuid].position # objects[uuid].originalPosition

-----------------------------------------------------------------------------
(* C25: the tool decides between adding and erasing *)

-----------------------------------------------------------------------------
(* C26: tweens that overlap on one body *)

\* the transform a tween writes on its last frame
EndsOf(tw) == <<tw.endPosition, tw.endRotation, tw.endScale>>
PlacedAt(uuid) == <<objects[uuid].position, objects[uuid].rotation, objects[uuid].scale>>

\* C26: a tween started on a body leaves the tweens already running on it
\* alone; every animation frame runs the callback of each tween whose
\* duration has not elapsed, and the callback writes the body's transform;
\* a tween ends only when its own duration has elapsed, and the callback
\* that ends it leaves the body at that tween's target
C26_OverlappingTweensAllRun ==
  [][/\ \A i \in DOMAIN tweens :
          /\ i \in DOMAIN tweens'
          /\ Len(tweens') > Len(tweens) => tweens'[i] = tweens[i]
          /\ (now' # now /\ Running(tweens[i])) => tweens'[i].pending
          /\ (Running(tweens[i]) /\ ~Running(tweens'[i])) =>
                /\ now' - tweens[i].startTime >= tweens[i].duration
                /\ PlacedAt(tweens[i].uuid)' = EndsOf(tweens[i])
     /\ \A i \in DOMAIN tweens :
          (tweens[i].pending /\ ~tweens'[i].pending) =>
             TransformOf(objects'[tweens[i].uuid])
               = animate(TransformOf(objects[tweens[i].uuid]), tweens[i], now)]_vars

\* C26 witness: the second tween was started while the first was running and
\* ended before it; both are over and the body is at the target of the first
C26_Witness ==
  /\ Len(tweens) = 2
  /\ tweens[1].uuid = tweens[2].uuid
  /\ tweens[2].startTime > tweens[1].startTime
  /\ tweens[2].startTime + tweens[2].duration < tweens[1].startTime + tweens[1].duration
  /\ \A i \in DOMAIN tweens : tweens[i].done /\ ~tweens[i].pending
  /\ physCall.op = "animate"
  /\ PlacedAt(tweens[1].uuid) = EndsOf(tweens[1])
  /\ EndsOf(tweens[1]) # EndsOf(tweens[2])

-----------------------------------------------------------------------------
(* C27: the snapshot a frame is classified against *)

\* C27: when the handler classifies a frame whose first hand has moved since
\* the frame before, the snapshot the detectors read still holds the index
\* tip and wrist of the frame before, and the drag movement measured against
\* it is not zero
C27_ClassifiedAgainstPreviousFrame ==
  [][\A frame \in SceneFrames :
       (/\ hasEngine
        /\ frame # << >>
        /\ OnResults(frame)
        /\ ~NoPrev(lastLandmarks, 0)
        /\ frame[1][8] # lastLandmarks["hand_0_index"]) =>
          /\ ClassifiedAgainst(frame)["hand_0_index"] = lastLandmarks["hand_0_index"]
          /\ ClassifiedAgainst(frame)["hand_0_wrist"] = lastLandmarks["hand_0_wrist"]
          /\ JsGt(_detectDrag(frame[1], 0, ClassifiedAgainst(frame)).confidence, Num(0))]_vars

-----------------------------------------------------------------------------
(* C28, C29: the isActive flag of a detector against its confidence *)

\* C28: in every result of analyze, pinch.isActive is true exactly when the
\* thumb tip and index tip are closer than pinchThreshold and both the index
\* tip is below its PIP joint and the thumb tip below its IP joint
C28_PinchActiveIffCloseAndBent ==
  (result.kind = "ok" /\ result.handCount > 0) =>
     LET pinch == result.gestures["pinch"]
     IN pinch.isActive <=>
          (pinch.distance < pinchThreshold /\ pinch.isIndexBent /\ pinch.isThumbBent)

\* C29: every gesture of a result whose confidence is above
\* confidenceThreshold, which makes it a candidate of the arbiter, has
\* isActive true; so has the drag that _detectDrag measures against the
\* stored snapshots
C29_CandidateIsActive ==
  /\ (result.kind = "ok" /\ result.handCount > 0) =>
        \A name \in DOMAIN result.gestures :
           JsGt(result.gestures[name].confidence, Num(confidenceThreshold))
             => result.gestures[name].isActive
  /\ \A frame \in OneHandFrames :
        LET drag == _detectDrag(frame[1], 0, lastLandmarks)
        IN JsGt(drag.confidence, Num(confidenceThreshold)) => drag.isActive

\* C29 witness: two pinching hands held together; pinch and twoHandPinch are
\* both candidates and both active
C29_Witness ==
  /\ result.kind = "ok"
  /\ result.handCount = 2
  /\ JsGt(result.gestures["pinch"].confidence, Num(confidenceThreshold))
  /\ JsGt(result.gestures["twoHandPinch"].confidence, Num(confidenceThreshold))
  /\ result.gestures["pinch"].isActive
  /\ result.gestures["twoHandPinch"].isActive
  /\ result.primaryGesture \in {"pinch", "twoHandPinch"}

-----------------------------------------------------------------------------
(* C30: the drag lifecycle of a registered body *)

\* the velocity updateDrag records for a body it moved to where it is now;
\* the hand stays in its plane, and the depth spring alone moves a dragged
\* body along z
DragVelocity(data) ==
  LET delta == VecSub(data.position, data.dragStartObjectPosition)
  IN VecScale(Vec(delta.x, delta.y, 0), Milli, FrameMs)

\* the step is the call op on the registered body uuid
CallOn(op, uuid) == Registered(uuid) /\ physCall' = Called(op, uuid)

\* C30: startDrag sets isDragging and zeroes velocity and rotationVelocity;
\* updateDrag on a body that is not dragged changes nothing; endDrag changes
\* nothing but isDragging, so a released body keeps the velocity of the last
\* updateDrag, and the next update integrates that velocity
C30_DragLifecycle ==
  [][\A uuid \in Uuids :
       /\ CallOn("startDrag", uuid) =>
            /\ objects'[uuid].isDragging
            /\ objects'[uuid].velocity = Zero3
            /\ objects'[uuid].rotationVelocity = Zero3
       /\ (CallOn("updateDrag", uuid) /\ ~objects[uuid].isDragging) =>
            objects' = objects
       /\ CallOn("endDrag", uuid) =>
            /\ objects' = [objects EXCEPT ![uuid].isDragging = FALSE]
            /\ objects[uuid].isDragging =>
                 objects'[uuid].velocity = DragVelocity(objects[uuid])
       /\ (Registered(uuid) /\ physCall.op = "endDrag" /\ physCall'.op = "update") =>
            /\ objects'[uuid].position.x =
                 _snapToGrid(objects[uuid].position.x
                             + MulDiv(objects[uuid].velocity.x, deltaTime', Milli))
            /\ objects'[uuid].position.y =
                 _snapToGrid(objects[uuid].position.y
                             + MulDiv(objects[uuid].velocity.y, deltaTime', Milli))]_vars

\* C30 witness: a body that was dragged aside and released has been moved on
\* by update with the velocity of the drag
C30_Witness ==
  \E uuid \in Uuids :
    /\ Registered(uuid)
    /\ drags > 0
    /\ ~objects[uuid].isDragging
    /\ physCall.op = "update"
    /\ objects[uuid].velocity =
         VecScale(VecScale(Vec(100 * Milli, 0, 0), Milli, FrameMs), positionDamping, 100)
    /\ objects[uuid].position.x = objects[uuid].dragStartObjectPosition.x + 200 * Milli

-----------------------------------------------------------------------------
(* C31: the getters after an analyze call that named a primary gesture *)

\* C31: after an analyze call that returns a primary gesture, that gesture
\* is active, its stored confidence is primaryConfidence, and
\* getPrimaryGesture returns its name
C31_GettersAgreeWithPrimary ==
  (lastCall = "analyze" /\ result.kind = "ok" /\ result.primaryGesture # "null") =>
     /\ isGestureActive(currentGestures, result.primaryGesture)
     /\ getGestureConfidence(currentGestures, result.primaryGesture)
          = result.primaryConfidence
     /\ getPrimaryGesture(currentGestures) = result.primaryGesture

-----------------------------------------------------------------------------
(* C32, C33: what a body's velocities can be *)

\* C32: a locked body has velocity (0, 0, 0) and rotationVelocity (0, 0, 0)
C32_LockedBodyHasNoVelocity ==
  \A uuid \in DOMAIN objects :
     objects[uuid].isLocked =>
        objects[uuid].velocity = Zero3 /\ objects[uuid].rotationVelocity = Zero3

-----------------------------------------------------------------------------
(* C34, C35: what update does to a body that should not move *)

\* C34: a body that was only registered or reset without animation, and
\* then updated any number of times, has the position, rotation and scale
\* captured at registration
C34_BodyAtRestStays ==
  \A uuid \in DOMAIN objects :
     /\ objects[uuid].position = objects[uuid].originalPosition
     /\ objects[uuid].rotation = objects[uuid].originalRotation
     /\ objects[uuid].scale = objects[uuid].originalScale

\* C35: an update call leaves the position of a dragged body unchanged on
\* all three axes
C35_UpdateKeepsDraggedPosition ==
  [][\A uuid \in DOMAIN objects :
       (physCall'.op = "update" /\ objects[uuid].isDragging) =>
          objects'[uuid].position = objects[uuid].position]_vars

-----------------------------------------------------------------------------
(* C36: what a render tick touches *)

\* C36: a render tick leaves the smoothed joints and the velocities of the
\* occupied hand slots, and the active-gesture map, as they were
C36_RenderTickKeepsHands ==
  [][physCall'.op = "update" =>
       /\ tracker'.hands = tracker.hands
       /\ tracker'.velocities = tracker.velocities
       /\ currentGestures' = currentGestures]_vars

-----------------------------------------------------------------------------
(* C37, C38: the voxel store and its history *)

\* the cell of a voxel on the grid addCube places it on
CellOf(cube) == GridKey(cube, 50)

\* C37: no two voxels are in the same cell, the occupied-cell set holds the
\* key of a cell exactly when a voxel is in it, and addCube on an occupied
\* cell adds nothing
C37_OneVoxelPerCell ==
  /\ \A i, j \in DOMAIN cubes : CellOf(cubes[i]) = CellOf(cubes[j]) => i = j
  /\ occupiedGrid = {GridKey(cubes[i], 100) : i \in DOMAIN cubes}

\* C38: a redo that follows at once an undo that changed the voxels brings
\* back the voxels there were before the undo
C38_RedoRestoresUndone ==
  [][(frameLog'.handler = "undo" /\ cubes' # cubes) =>
       window_redo([cubes |-> cubes', occupiedGrid |-> occupiedGrid'],
                   [undo |-> historyRef'.undo, redo |-> historyRef'.redo,
                    lastSaveTime |-> lastSaveTime']).voxels.cubes = cubes]_vars

====
